---- MODULE Spec2Model ----
(***************************************************************************)
(* Model of the live-data pipeline of sydney-property-ai.                  *)
(*                                                                         *)
(* Part 1: ConcurrentPropertyFetcher                                       *)
(* (backend/services/concurrent_property_fetcher.py): one fetcher object   *)
(* (cache, rate limiter, global semaphore) serving several overlapping     *)
(* fetch_properties_concurrent calls.  asyncio is cooperative, so one      *)
(* action is the code a coroutine runs between two suspension points.      *)
(*                                                                         *)
(* Time is counted in ticks of half a second.  The code stores absolute    *)
(* timestamps and compares them with the clock; the model stores the age   *)
(* of each timestamp (clock - timestamp), which is all the code ever       *)
(* computes from them, and lets it saturate once it has passed every       *)
(* threshold the code compares it with.                                    *)
(***************************************************************************)
EXTENDS Integers, Sequences, FiniteSets, TLC

\* ------------------------------------------------------------- bounds
\* cache_ttl_minutes, the constructor's argument, in ticks
CacheTTL == 5
\* the smaller of the two max_concurrent_total values the fetcher is built with
SmallTotal == 1
\* the longest list of tasks of one call
MaxTasks == 2

\* -------------------------------------------------- program constants
\* SiteConfig.rate_limit_delay, in ticks: 2.0 s, 1.5 s, 1.0 s
RealestateDelay == 4
DomainDelay == 3
RentDelay == 2
\* asyncio.sleep(5) after a 429, in ticks
Backoff429 == 10
\* random.uniform(1, 3) before a retry, in ticks
JitterMin == 2
JitterMax == 6
\* max_concurrent_total's default
DefaultTotal == 10

None == "None"

ConfiguredSites == {"realestate.com.au", "domain.com.au", "rent.com.au"}

site_configs(site) ==
    CASE site = "realestate.com.au" ->
           [rate_limit_delay |-> RealestateDelay, max_concurrent |-> 3, retry_attempts |-> 3]
      [] site = "domain.com.au" ->
           [rate_limit_delay |-> DomainDelay, max_concurrent |-> 4, retry_attempts |-> 3]
      [] site = "rent.com.au" ->
           [rate_limit_delay |-> RentDelay, max_concurrent |-> 5, retry_attempts |-> 2]

\* ------------------------------------------------------------ inputs
FetchTask(u, s) == [url |-> u, site |-> s]

\* What the fetcher is built and called with when one call is made: the call's
\* url_data_list and the constructor's max_concurrent_total.
Scenarios ==
    { [input |-> << FetchTask("u1", "realestate.com.au"), FetchTask("u1", "realestate.com.au") >>,
       total |-> DefaultTotal],
      [input |-> << FetchTask("u2", "rent.com.au"), FetchTask("u3", "flatmates.com.au") >>,
       total |-> DefaultTotal],
      [input |-> << FetchTask("u3", "domain.com.au"), FetchTask("u2", "rent.com.au") >>,
       total |-> SmallTotal] }

\* What one session.get can end in: a response with a status, asyncio.TimeoutError,
\* or an aiohttp.ClientError (with a non-empty message).
Response(st) == [kind |-> "response", status |-> st]
TimeoutError == [kind |-> "timeout", status |-> 0]
ClientError == [kind |-> "transport", status |-> 0]
NoOutcome == [kind |-> "none", status |-> 0]
Statuses == {200, 429, 403, 400, 500}
Outcomes == {Response(st) : st \in Statuses} \cup {TimeoutError, ClientError}
\* The outcomes after which the retry loop makes no further attempt.
FinalOutcomes == {Response(200), Response(403)}

\* ------------------------------------------------------- FetchResult
\* FetchResult.error: None, or one of the messages the fetcher formats.
Err(k, st, n, l) == [kind |-> k, status |-> st, attempt |-> n, last |-> l]
NoError == Err("None", 0, 0, None)
\* f"Rate limited (429) on attempt {attempt + 1}"
ErrRateLimited(n) == Err("RateLimited", 429, n, None)
\* f"Client error {response.status}"
ErrClient(st) == Err("ClientError", st, 0, None)
\* f"HTTP {response.status} on attempt {attempt + 1}"
ErrHTTP(st, n) == Err("HTTP", st, n, None)
\* f"Timeout on attempt {attempt + 1}"
ErrTimeout(n) == Err("Timeout", 0, n, None)
\* f"Client error on attempt {attempt + 1}: {str(e)}"
ErrTransport(n) == Err("Transport", 0, n, "ClientError")
\* f"Failed after {config.retry_attempts} attempts. Last error: {last_exception}"
ErrFailedAfter(n, l) == Err("FailedAfter", 0, n, l)

\* FetchResult(url=url, site=site, success=False); status_code 0 is None
FetchResult(u, s) ==
    [url |-> u, site |-> s, success |-> FALSE, status_code |-> 0,
     content |-> FALSE, error |-> NoError]

VARIABLES
    input,                  \* url_data_list of each call
    max_concurrent_total,   \* the constructor's argument
    semaphore,              \* self.semaphore: permits left
    cache,                  \* PropertyFetchCache.cache: key -> (result, age of timestamp)
    last_request_times,     \* RateLimiter.last_request_times: site -> age of the time
    callpc,                 \* each call: "idle", "running", "returned"
    returned,               \* each call's returned list
    pc,                     \* each _fetch_site_urls coroutine's position
    idx,                    \* ... the task it is at (1-based)
    results,                \* ... its results list
    timer,                  \* ... ticks left of the asyncio.sleep it is in
    attempt,                \* ... session.get calls made for the current task
    result,                 \* ... the FetchResult being filled
    last_exception,         \* ... last_exception of the retry loop
    last_outcome,           \* history: what the last session.get of the task ended in
    mix,                    \* history: the kinds of outcome the task's attempts have had
    waited,                 \* history: ticks since the last attempt ended
    last_get,               \* history: site -> age of the last session.get
    last_fetch              \* history: url -> (result, age) of the last fetch that went to the network

\* PropertyDeduplicator.deduplicate_properties
VARIABLES
    properties,             \* the argument
    standardized_properties,
    unique_properties,
    matches,
    processed_indices,
    anchor,                 \* i of the outer loop (1-based)
    dpc,                    \* "idle", "call", "loop", "returned"
    groups                  \* history: the input indices behind each unique property

\* PropertyRecommendationService.build_query_from_request and recommend_properties
VARIABLES
    search_request,         \* the search_request argument of build_query_from_request
    file_default,           \* its file_default argument
    listings,               \* the properties argument
    query,                  \* the query argument
    topk,                   \* the topk argument
    recommendations,        \* the returned list
    rpc                     \* "idle", "call", "returned"

\* LiveRecommendationEngine.get_live_recommendations
VARIABLES
    enable_fallback_to_static,  \* the constructor's argument
    include_alternatives,   \* the include_alternatives argument
    search_urls,            \* how many URLs generate_search_urls returns
    static_data,            \* what _get_static_fallback_properties returns when called
    fetch_results,          \* the list fetch_properties_concurrent returned
    all_properties,
    fetch_metadata,
    live_unique,            \* unique_properties of get_live_recommendations
    metrics,                \* self.metrics (the counters)
    response,               \* the returned dictionary
    epc                     \* "idle", "start", "fetched", "dedup", "compile", "returned"

fvars == << input, max_concurrent_total, semaphore, cache, last_request_times, callpc,
            returned, pc, idx, results, timer, attempt, result, last_exception,
            last_outcome, mix, waited, last_get, last_fetch >>

dvars == << properties, standardized_properties, unique_properties, matches,
            processed_indices, anchor, dpc, groups >>

rvars == << search_request, file_default, listings, query, topk, recommendations, rpc >>

evars == << enable_fallback_to_static, include_alternatives, search_urls, static_data,
            fetch_results, all_properties, fetch_metadata, live_unique, metrics,
            response, epc >>

vars == << fvars, dvars, rvars, evars >>

\* No deduplication is going on.
DedupIdle ==
    /\ properties = << >>
    /\ standardized_properties = << >>
    /\ unique_properties = << >>
    /\ matches = << >>
    /\ processed_indices = {}
    /\ anchor = 1
    /\ dpc = "idle"
    /\ groups = << >>

\* No recommendation is going on.
RankIdle ==
    /\ search_request = "None"
    /\ file_default = "None"
    /\ listings = << >>
    /\ query = "None"
    /\ topk = 0
    /\ recommendations = << >>
    /\ rpc = "idle"

\* Null stands for None, and for a key that a dictionary does not have.
Null == 0 - 1000000

\* fetch_metadata before the loop of Phase 3
EmptyMetadata ==
    [successful_fetches |-> 0, failed_fetches |-> 0, total_properties_found |-> 0]

\* the metadata of a response that has no fetch_results
NoMetadata ==
    [successful_fetches |-> Null, failed_fetches |-> Null, total_properties_found |-> Null]

\* no response yet
NoResponse ==
    [success |-> FALSE, total_found |-> Null, total_raw |-> Null,
     duplicates_removed |-> Null, properties |-> << >>, fetch_results |-> NoMetadata,
     data_source |-> "None"]

\* self.metrics after __init__
NoMetrics == [total_requests |-> 0, successful_requests |-> 0, fallback_usage |-> 0]

\* No live recommendation is going on.
EngineIdle ==
    /\ enable_fallback_to_static = TRUE
    /\ include_alternatives = TRUE
    /\ search_urls = 0
    /\ static_data = << >>
    /\ fetch_results = << >>
    /\ all_properties = << >>
    /\ fetch_metadata = EmptyMetadata
    /\ live_unique = << >>
    /\ metrics = NoMetrics
    /\ response = NoResponse
    /\ epc = "idle"

\* --------------------------------------------------------- helpers
\* The calls made, and their _fetch_site_urls coroutines (one per call and site).
CallIds == DOMAIN input

Runners == CallIds \X ConfiguredSites

Min(a, b) == IF a < b THEN a ELSE b

\* urls_by_site[site] of a call
SiteTasks(c, s) == SelectSeq(input[c], LAMBDA t : t.site = s)

Tasks(r) == SiteTasks(r[1], r[2])

CurrentTask(r) == Tasks(r)[idx[r]]

Config(r) == site_configs(r[2])

\* ------------------------------------------------ PropertyFetchCache
\* hashlib.md5(url.encode()).hexdigest(): one key per url
generate_key(url) == << "md5", url >>

\* (mutation: the entry is kept for one tick more than the TTL)
ExpiredLate(entry) == entry.age > CacheTTL

\* datetime.now() - timestamp < self.cache_ttl fails
Expired(entry) == entry.age >= CacheTTL

\* (mutation: an entry is returned whatever its age)
cache_get_stale(c, url) ==
    LET key == generate_key(url) IN
    IF key \in DOMAIN c
    THEN [hit |-> TRUE, result |-> c[key].result, cache |-> c]
    ELSE [hit |-> FALSE, result |-> FetchResult(url, None), cache |-> c]

\* PropertyFetchCache.get: the cached result if not expired; an expired entry is removed
cache_get(c, url) ==
    LET key == generate_key(url) IN
    IF key \in DOMAIN c
    THEN IF ~Expired(c[key])
         THEN [hit |-> TRUE, result |-> c[key].result, cache |-> c]
         ELSE [hit |-> FALSE, result |-> FetchResult(url, None),
               cache |-> [k \in DOMAIN c \ {key} |-> c[k]]]
    ELSE [hit |-> FALSE, result |-> FetchResult(url, None), cache |-> c]

\* PropertyFetchCache.set
cache_set(c, url, res) ==
    LET key == generate_key(url) IN
    [k \in DOMAIN c \cup {key} |-> IF k = key THEN [result |-> res, age |-> 0] ELSE c[k]]

\* PropertyFetchCache.clear_expired
clear_expired(c) ==
    LET live == {k \in DOMAIN c : ~Expired(c[k])} IN [k \in live |-> c[k]]

\* dict[key] = (value, now)
Stamp(d, k, v) == [x \in DOMAIN d \cup {k} |-> IF x = k THEN v ELSE d[x]]

EmptyDict == [k \in {} |-> 0]

\* -------------------------------------------------------------- Init
Runner0(f) == [r \in Runners |-> f]

\* The fetcher after __init__, and the calls that will be made on it.
Fresh ==
    /\ semaphore = max_concurrent_total
    /\ cache = EmptyDict
    /\ last_request_times = EmptyDict
    /\ callpc = [c \in CallIds |-> "idle"]
    /\ returned = [c \in CallIds |-> << >>]
    /\ pc = Runner0("none")
    /\ idx = Runner0(1)
    /\ results = Runner0(<< >>)
    /\ timer = Runner0(0)
    /\ attempt = Runner0(0)
    /\ result = Runner0(FetchResult(None, None))
    /\ last_exception = Runner0(None)
    /\ last_outcome = Runner0(NoOutcome)
    /\ mix = Runner0("transient")
    /\ waited = Runner0(0)
    /\ last_get = EmptyDict
    /\ last_fetch = EmptyDict

\* One call.
Init ==
    /\ \E sc \in Scenarios :
          /\ input = [c \in {1} |-> sc.input]
          /\ max_concurrent_total = sc.total
    /\ Fresh
    /\ DedupIdle
    /\ RankIdle
    /\ EngineIdle

\* Overlapping calls for the same page of realestate.com.au: one more than its
\* max_concurrent.
OverlapCalls == 1 .. site_configs("realestate.com.au").max_concurrent + 1

InitOverlap ==
    /\ input = [c \in OverlapCalls |-> << FetchTask("u1", "realestate.com.au") >>]
    /\ max_concurrent_total = DefaultTotal
    /\ Fresh
    /\ DedupIdle
    /\ RankIdle
    /\ EngineIdle

\* ------------------------------------------------- the coroutines' steps
\* The variables of the retry loop that a step leaves alone.
LoopUnchanged == UNCHANGED << attempt, result, last_exception, last_outcome, mix, waited >>

CallUnchanged == UNCHANGED << input, max_concurrent_total, callpc, returned >>

\* fetch_properties_concurrent up to its await: clear the expired entries, group the
\* tasks by site, one _fetch_site_urls coroutine per configured site that has tasks.
CallStart(c) ==
    /\ callpc[c] = "idle"
    /\ callpc' = [callpc EXCEPT ![c] = "running"]
    /\ cache' = clear_expired(cache)
    /\ pc' = [r \in Runners |->
                IF r[1] = c /\ Tasks(r) # << >> THEN "limit" ELSE pc[r]]
    /\ UNCHANGED << input, max_concurrent_total, semaphore, last_request_times, returned,
                    idx, results, timer, last_get, last_fetch >>
    /\ LoopUnchanged

\* (mutation: the result is put in front of the earlier ones)
DeliverFirst(r, res) ==
    /\ results' = [results EXCEPT ![r] = << res >> \o @]
    /\ idx' = [idx EXCEPT ![r] = @ + 1]
    /\ pc' = [pc EXCEPT ![r] = IF idx[r] + 1 > Len(Tasks(r)) THEN "sitedone" ELSE "limit"]

\* _fetch_site_urls: results.append(result), then the next task or the return.
Deliver(r, res) ==
    /\ results' = [results EXCEPT ![r] = Append(@, res)]
    /\ idx' = [idx EXCEPT ![r] = @ + 1]
    /\ pc' = [pc EXCEPT ![r] = IF idx[r] + 1 > Len(Tasks(r)) THEN "sitedone" ELSE "limit"]

\* session.get(url) is issued: one more attempt in flight.
IssueGet(r) ==
    /\ pc' = [pc EXCEPT ![r] = "inflight"]
    /\ attempt' = [attempt EXCEPT ![r] = @ + 1]
    /\ last_get' = Stamp(last_get, r[2], 0)
    /\ waited' = [waited EXCEPT ![r] = 0]

\* _fetch_single_property_page from its start to its first suspension: the cache
\* lookup, then the global semaphore and the first session.get.
BeginFetch(r) ==
    LET url == CurrentTask(r).url
        got == cache_get(cache, url)
    IN /\ cache' = got.cache
       /\ last_outcome' = [last_outcome EXCEPT ![r] = NoOutcome]
       /\ mix' = [mix EXCEPT ![r] = "transient"]
       /\ last_exception' = [last_exception EXCEPT ![r] = None]
       /\ timer' = [timer EXCEPT ![r] = 0]
       /\ IF got.hit
          THEN /\ Deliver(r, got.result)
               /\ attempt' = [attempt EXCEPT ![r] = 0]
               /\ waited' = [waited EXCEPT ![r] = 0]
               /\ UNCHANGED << result, semaphore, last_get >>
          ELSE /\ result' = [result EXCEPT ![r] = FetchResult(url, CurrentTask(r).site)]
               /\ UNCHANGED << results, idx >>
               /\ IF semaphore > 0
                  THEN /\ semaphore' = semaphore - 1
                       /\ attempt' = [attempt EXCEPT ![r] = 1]
                       /\ pc' = [pc EXCEPT ![r] = "inflight"]
                       /\ last_get' = Stamp(last_get, r[2], 0)
                       /\ waited' = [waited EXCEPT ![r] = 0]
                  ELSE /\ pc' = [pc EXCEPT ![r] = "semwait"]
                       /\ attempt' = [attempt EXCEPT ![r] = 0]
                       /\ waited' = [waited EXCEPT ![r] = 0]
                       /\ UNCHANGED << semaphore, last_get >>

\* (mutation: the sleep returns at once)
SleepSkipped(r) == TRUE

\* asyncio.sleep(t) returns once t has passed
SleepOver(r) == timer[r] = 0

\* RateLimiter.wait_if_needed from the wake-up (or from the start, when it need not
\* sleep) to its return, and on into the awaited task.
AfterWait(r) ==
    /\ last_request_times' = Stamp(last_request_times, r[2], 0)
    /\ BeginFetch(r)
    /\ UNCHANGED last_fetch
    /\ CallUnchanged

\* RateLimiter.wait_if_needed: the ticks it has to sleep (0: none)
wait_time(site, delay) ==
    IF site \in DOMAIN last_request_times /\ last_request_times[site] < delay
    THEN delay - last_request_times[site]
    ELSE 0

\* _fetch_site_urls at the top of its loop: await wait_if_needed(site, delay)
WaitIfNeeded(r) ==
    /\ pc[r] = "limit"
    /\ LET w == wait_time(r[2], Config(r).rate_limit_delay) IN
       IF w > 0
       THEN /\ pc' = [pc EXCEPT ![r] = "ratesleep"]
            /\ timer' = [timer EXCEPT ![r] = w]
            /\ UNCHANGED << semaphore, cache, last_request_times, idx, results,
                            last_get, last_fetch >>
            /\ LoopUnchanged
            /\ CallUnchanged
       ELSE AfterWait(r)

\* asyncio.sleep(wait_time) is over
RateWake(r) ==
    /\ pc[r] = "ratesleep"
    /\ SleepOver(r)
    /\ AfterWait(r)

\* async with self.semaphore, after having had to wait for a permit
AcquireSemaphore(r) ==
    /\ pc[r] = "semwait"
    /\ semaphore > 0
    /\ semaphore' = semaphore - 1
    /\ IssueGet(r)
    /\ UNCHANGED << cache, last_request_times, idx, results, timer, result,
                    last_exception, last_outcome, mix, last_fetch >>
    /\ CallUnchanged

\* The retry loop is left (break, or the attempts are used up): the check after the
\* loop, the semaphore's release, the return to _fetch_site_urls.
EndLoop(r, res, lastexc) ==
    LET final == IF ~res.success /\ lastexc # None
                 THEN [res EXCEPT !.error = ErrFailedAfter(Config(r).retry_attempts, lastexc)]
                 ELSE res
    IN /\ result' = [result EXCEPT ![r] = final]
       /\ semaphore' = semaphore + 1
       /\ Deliver(r, final)
       /\ last_fetch' = Stamp(last_fetch, res.url, [result |-> final, age |-> 0])
       /\ timer' = [timer EXCEPT ![r] = 0]

\* continue: the next iteration starts with asyncio.sleep(random.uniform(1, 3)), or
\* the loop is over.
Continue(r, res, lastexc) ==
    IF attempt[r] < Config(r).retry_attempts
    THEN /\ pc' = [pc EXCEPT ![r] = "jitter"]
         /\ \E j \in JitterMin .. JitterMax : timer' = [timer EXCEPT ![r] = j]
         /\ result' = [result EXCEPT ![r] = res]
         /\ UNCHANGED << semaphore, idx, results, last_fetch >>
    ELSE EndLoop(r, res, lastexc)

\* The kinds of outcome of a task's attempts: "transient" while each was a 5xx, a
\* timeout or a transport error, "limited" once a 429 is among them, "other" once
\* any other outcome is.
IsTransient(o) == o.kind \in {"timeout", "transport"} \/ (o.kind = "response" /\ o.status >= 500)

Mixed(m, o) ==
    IF m = "other" \/ ~(IsTransient(o) \/ o = Response(429)) THEN "other"
    ELSE IF o = Response(429) THEN "limited"
    ELSE m

\* session.get(url) ends in outcome o: the body of the retry loop after it.
Respond(r, o) ==
    /\ pc[r] = "inflight"
    /\ last_outcome' = [last_outcome EXCEPT ![r] = o]
    /\ mix' = [mix EXCEPT ![r] = Mixed(@, o)]
    /\ waited' = [waited EXCEPT ![r] = 0]
    /\ UNCHANGED << attempt, last_request_times, last_get >>
    /\ CallUnchanged
    /\ LET res == result[r]
           n == attempt[r]
       IN CASE o.kind = "response" /\ o.status = 200 ->
                 LET ok == [res EXCEPT !.status_code = 200, !.content = TRUE, !.success = TRUE]
                 IN /\ cache' = cache_set(cache, res.url, ok)
                    /\ EndLoop(r, ok, last_exception[r])
                    /\ UNCHANGED last_exception
            [] o.kind = "response" /\ o.status = 429 ->
                 /\ result' = [result EXCEPT ![r] =
                                 [res EXCEPT !.status_code = 429, !.error = ErrRateLimited(n)]]
                 /\ pc' = [pc EXCEPT ![r] = "backoff"]
                 /\ timer' = [timer EXCEPT ![r] = Backoff429]
                 /\ UNCHANGED << semaphore, cache, idx, results, last_exception, last_fetch >>
            [] o.kind = "response" /\ o.status \in {403, 404} ->
                 /\ EndLoop(r, [res EXCEPT !.status_code = o.status, !.error = ErrClient(o.status)],
                            last_exception[r])
                 /\ UNCHANGED << cache, last_exception >>
            [] o.kind = "response" /\ o.status \notin {200, 429, 403, 404} ->
                 /\ Continue(r, [res EXCEPT !.status_code = o.status, !.error = ErrHTTP(o.status, n)],
                             last_exception[r])
                 /\ UNCHANGED << cache, last_exception >>
            [] o.kind = "timeout" ->
                 /\ last_exception' = [last_exception EXCEPT ![r] = "Request timeout"]
                 /\ Continue(r, [res EXCEPT !.error = ErrTimeout(n)], "Request timeout")
                 /\ UNCHANGED cache
            [] o.kind = "transport" ->
                 /\ last_exception' = [last_exception EXCEPT ![r] = "ClientError"]
                 /\ Continue(r, [res EXCEPT !.error = ErrTransport(n)], "ClientError")
                 /\ UNCHANGED cache

\* asyncio.sleep(5) after a 429 is over: continue
BackoffWake(r) ==
    /\ pc[r] = "backoff"
    /\ SleepOver(r)
    /\ Continue(r, result[r], last_exception[r])
    /\ waited' = [waited EXCEPT ![r] = IF pc'[r] = "jitter" THEN @ ELSE 0]
    /\ UNCHANGED << cache, last_request_times, attempt, last_exception, last_outcome,
                    mix, last_get >>
    /\ CallUnchanged

\* asyncio.sleep(random.uniform(1, 3)) is over: the next session.get
JitterWake(r) ==
    /\ pc[r] = "jitter"
    /\ SleepOver(r)
    /\ IssueGet(r)
    /\ UNCHANGED << semaphore, cache, last_request_times, idx, results, timer, result,
                    last_exception, last_outcome, mix, last_fetch >>
    /\ CallUnchanged

\* The sites of a call in the order urls_by_site holds them (first appearance).
RECURSIVE SiteOrder(_)
SiteOrder(tasks) ==
    IF tasks = << >> THEN << >>
    ELSE LET first == SiteOrder(SubSeq(tasks, 1, Len(tasks) - 1))
             s == tasks[Len(tasks)].site
         IN IF \E i \in 1 .. Len(first) : first[i] = s THEN first ELSE Append(first, s)

RECURSIVE Gathered(_, _)
Gathered(c, sites) ==
    IF sites = << >> THEN << >>
    ELSE LET s == Head(sites) IN
         (IF s \in ConfiguredSites THEN results[<< c, s >>] ELSE << >>)
             \o Gathered(c, Tail(sites))

\* A coroutine that the event loop can run now: it is not waiting for the clock or
\* for the network.
Ready(r) ==
    \/ pc[r] = "limit"
    \/ pc[r] \in {"ratesleep", "backoff", "jitter"} /\ SleepOver(r)
    \/ pc[r] = "semwait" /\ semaphore > 0

CanReturn(c) ==
    /\ callpc[c] = "running"
    /\ \A s \in ConfiguredSites : pc[<< c, s >>] \in {"none", "sitedone"}

\* asyncio.gather has every site's list: fetch_properties_concurrent returns
Gather(c) ==
    /\ CanReturn(c)
    /\ callpc' = [callpc EXCEPT ![c] = "returned"]
    /\ returned' = [returned EXCEPT ![c] = Gathered(c, SiteOrder(input[c]))]
    /\ UNCHANGED << input, max_concurrent_total, semaphore, cache, last_request_times,
                    pc, idx, results, timer, last_get, last_fetch >>
    /\ LoopUnchanged

\* Half a second passes.
Age(d, cap) == [k \in DOMAIN d |-> Min(d[k] + 1, cap)]

MaxDelay == RealestateDelay

\* The event loop runs what is ready well within one tick: the clock advances only
\* when every coroutine waits for it, for the network or for a caller.
Tick ==
    /\ \A r \in Runners : ~Ready(r)
    /\ \A c \in CallIds : ~CanReturn(c)
    /\ \E c \in CallIds : callpc[c] # "returned"
    /\ cache' = [k \in DOMAIN cache |-> [cache[k] EXCEPT !.age = Min(@ + 1, CacheTTL)]]
    /\ last_fetch' = [k \in DOMAIN last_fetch |->
                        [last_fetch[k] EXCEPT !.age = Min(@ + 1, CacheTTL)]]
    /\ last_request_times' = Age(last_request_times, MaxDelay)
    /\ last_get' = Age(last_get, MaxDelay)
    /\ timer' = [r \in Runners |-> IF timer[r] > 0 THEN timer[r] - 1 ELSE 0]
    /\ waited' = [r \in Runners |->
                    IF pc[r] \in {"backoff", "jitter"} THEN Min(waited[r] + 1, Backoff429)
                    ELSE waited[r]]
    /\ UNCHANGED << semaphore, pc, idx, results, attempt, result, last_exception,
                    last_outcome, mix >>
    /\ CallUnchanged

Next ==
    \/ \E c \in CallIds : CallStart(c) /\ UNCHANGED << dvars, rvars, evars >>
    \/ \E r \in Runners : WaitIfNeeded(r) /\ UNCHANGED << dvars, rvars, evars >>
    \/ \E r \in Runners : RateWake(r) /\ UNCHANGED << dvars, rvars, evars >>
    \/ \E r \in Runners : AcquireSemaphore(r) /\ UNCHANGED << dvars, rvars, evars >>
    \/ \E r \in Runners : \E o \in Outcomes : Respond(r, o) /\ UNCHANGED << dvars, rvars, evars >>
    \/ \E r \in Runners : BackoffWake(r) /\ UNCHANGED << dvars, rvars, evars >>
    \/ \E r \in Runners : JitterWake(r) /\ UNCHANGED << dvars, rvars, evars >>
    \/ \E c \in CallIds : Gather(c) /\ UNCHANGED << dvars, rvars, evars >>
    \/ Tick /\ UNCHANGED << dvars, rvars, evars >>

Spec == Init /\ [][Next]_vars

\* The event loop runs every coroutine that is ready, the clock advances, every
\* session.get ends (ClientTimeout bounds it), and gather returns.
Fairness ==
    /\ WF_vars(Tick /\ UNCHANGED << dvars, rvars, evars >>)
    /\ WF_vars(/\ \E r \in Runners : WaitIfNeeded(r) \/ RateWake(r) \/ AcquireSemaphore(r)
                                       \/ BackoffWake(r) \/ JitterWake(r)
               /\ UNCHANGED << dvars, rvars, evars >>)
    /\ WF_vars(/\ \E r \in Runners : \E o \in Outcomes : Respond(r, o)
               /\ UNCHANGED << dvars, rvars, evars >>)
    /\ WF_vars(/\ \E c \in CallIds : Gather(c)
               /\ UNCHANGED << dvars, rvars, evars >>)

FairSpec == Spec /\ Fairness

\* The same steps when every request is answered with 200 or 403.
NextOverlap ==
    \/ \E c \in CallIds : CallStart(c) /\ UNCHANGED << dvars, rvars, evars >>
    \/ \E r \in Runners : WaitIfNeeded(r) /\ UNCHANGED << dvars, rvars, evars >>
    \/ \E r \in Runners : RateWake(r) /\ UNCHANGED << dvars, rvars, evars >>
    \/ \E r \in Runners : \E o \in FinalOutcomes : Respond(r, o) /\ UNCHANGED << dvars, rvars, evars >>
    \/ \E c \in CallIds : Gather(c) /\ UNCHANGED << dvars, rvars, evars >>
    \/ Tick /\ UNCHANGED << dvars, rvars, evars >>

SpecOverlap == InitOverlap /\ [][NextOverlap]_vars

\* ---------------------------------------------------------------------
\* Properties of the fetcher
\* ---------------------------------------------------------------------
Last(seq) == seq[Len(seq)]

Count(seq, u) == Cardinality({i \in 1 .. Len(seq) : seq[i].url = u})

UrlsOf(seq) == {seq[i].url : i \in 1 .. Len(seq)}

\* Steps of coroutine r, told from the state before and after:
\* wait_if_needed returns and the awaited task starts (cache lookup);
Begins(r) ==
    /\ pc[r] \in {"limit", "ratesleep"}
    /\ pc'[r] \in {"inflight", "semwait"} \/ idx'[r] = idx[r] + 1
\* the task goes to the network (its session.get follows, once a permit is free);
GoesToNetwork(r) == pc'[r] \in {"inflight", "semwait"}
\* a session.get is issued;
Issues(r) == pc[r] # "inflight" /\ pc'[r] = "inflight"
\* a session.get ends;
Responds(r) == pc[r] = "inflight" /\ pc'[r] # "inflight"
\* the task's FetchResult is appended to results.
Delivers(r) == idx'[r] = idx[r] + 1

\* The last task of r is finalized and the next has not begun.
Finalized(r) == pc[r] \in {"limit", "ratesleep", "sitedone"} /\ results[r] # << >>

\* C1: the list a call returns holds exactly one FetchResult per submitted task,
\* matched by url, whatever the task's site and however its attempts end.
C1_OneResultPerTask ==
    \A c \in CallIds :
        callpc[c] = "returned" =>
            \A u \in UrlsOf(input[c]) \cup UrlsOf(returned[c]) :
                Count(returned[c], u) = Count(input[c], u)

\* C2: every FetchResult returned has an error iff it is not a success.
C2_ErrorIffFailure ==
    \A c \in CallIds : \A i \in 1 .. Len(returned[c]) :
        LET f == returned[c][i] IN
        /\ ~f.success => f.error # NoError
        /\ f.success => f.error = NoError

C3_Refetch ==
    \E r \in Runners :
        /\ pc[r] = "inflight"
        /\ result[r].url \in DOMAIN last_fetch
        /\ last_fetch[result[r].url].result.success
        /\ last_fetch[result[r].url].age >= CacheTTL

\* C4: a session.get to a site is issued no sooner than the site's rate_limit_delay
\* after the previous session.get to that site, first attempts and retries alike.
C4_RequestsSpaced ==
    [][\A r \in Runners :
         (Issues(r) /\ r[2] \in DOMAIN last_get) =>
             last_get[r[2]] >= Config(r).rate_limit_delay]_vars

\* C5: wait_if_needed returns for a site no sooner than the delay after its previous
\* return for that site (the time it recorded in last_request_times).
C5_LimiterAtomic ==
    [][\A r \in Runners :
         (Begins(r) /\ r[2] \in DOMAIN last_request_times) =>
             last_request_times[r[2]] >= Config(r).rate_limit_delay]_vars

\* C6: an attempt answered with a 4xx other than 429 is the task's last: the task is
\* finalized at once, failed, with the client error recorded.
C6_ClientErrorFinal ==
    [][\A r \in Runners :
         LET o == last_outcome'[r] IN
         (Responds(r) /\ o.kind = "response"
                      /\ o.status >= 400 /\ o.status < 500 /\ o.status # 429) =>
             /\ Delivers(r)
             /\ ~Last(results'[r]).success
             /\ Last(results'[r]).error = ErrClient(o.status)]_vars

\* C7: after a 429 on attempt 1, attempt 2 is issued no sooner than the back-off of
\* 5 s, which is longer than every site's rate_limit_delay, later; and when attempt 2
\* is answered 200 the task's FetchResult is a success.
C7_BackoffThenSuccess ==
    [][\A r \in Runners :
         /\ \A s \in ConfiguredSites : Backoff429 > site_configs(s).rate_limit_delay
         /\ (Issues(r) /\ attempt[r] = 1 /\ last_outcome[r] = Response(429)) =>
                waited[r] >= Backoff429
         /\ (Responds(r) /\ attempt[r] = 2 /\ result[r].error = ErrRateLimited(1)
                         /\ last_outcome'[r] = Response(200)) =>
                Delivers(r) /\ Last(results'[r]).success]_vars

\* A task answered 429 and then 200 is finalized.
C7_RateLimitedThenOk ==
    \E r \in Runners :
        /\ Finalized(r)
        /\ attempt[r] = 2
        /\ last_outcome[r] = Response(200)
        /\ Last(results[r]).error = ErrRateLimited(1)

\* Task i of the call has its FetchResult: the results of its site hold as many
\* entries as the call has tasks of that site up to i.
TaskFinalized(c, i) ==
    LET s == input[c][i].site
        k == Len(SelectSeq(SubSeq(input[c], 1, i), LAMBDA t : t.site = s))
    IN  s \in ConfiguredSites /\ Len(results[<< c, s >>]) >= k

AttemptsBounded ==
    \A r \in Runners :
        /\ attempt[r] <= Config(r).retry_attempts
        /\ (Finalized(r) /\ attempt[r] >= 1 /\ mix[r] = "transient") =>
               ~Last(results[r]).success /\ attempt[r] = Config(r).retry_attempts

\* C8: a task never makes more than its source's retry_attempts attempts; a task
\* whose every attempt ended in a 5xx, a timeout or a transport error is failed
\* after exactly retry_attempts attempts; and every task of a call that was made is
\* eventually finalized.
C8_BoundedAndFinalized ==
    /\ []AttemptsBounded
    /\ \A i \in 1 .. MaxTasks :
           [](callpc[1] = "running" /\ i <= Len(input[1]) => <>TaskFinalized(1, i))

\* The same for the tasks of configured sources only.
C8_ConfiguredSources ==
    /\ []AttemptsBounded
    /\ \A i \in 1 .. MaxTasks :
           [](/\ callpc[1] = "running" /\ i <= Len(input[1])
              /\ input[1][i].site \in ConfiguredSites
              => <>TaskFinalized(1, i))

\* A task failed after retry_attempts attempts that were all transient errors.
C8_Exhausted ==
    \E r \in Runners :
        /\ Finalized(r) /\ mix[r] = "transient"
        /\ attempt[r] = Config(r).retry_attempts
        /\ ~Last(results[r]).success

\* The error that attempt n records when it ends in outcome o.
ErrorOf(o, n) ==
    CASE o.kind = "timeout" -> ErrTimeout(n)
      [] o.kind = "transport" -> ErrTransport(n)
      [] o.kind = "response" /\ o.status = 429 -> ErrRateLimited(n)
      [] OTHER -> ErrHTTP(o.status, n)

\* err tells of outcome o of attempt n, in the attempt's own words or as the last
\* error of the "Failed after" message.
Reports(err, o, n) ==
    \/ err = ErrorOf(o, n)
    \/ /\ o.kind = "timeout"
       /\ err = ErrFailedAfter(n, "Request timeout")
    \/ /\ o.kind = "transport"
       /\ err = ErrFailedAfter(n, "ClientError")

\* C9: a task that failed after retry_attempts attempts, each a 5xx, a 429, a
\* timeout or a transport error, records the error of its last attempt.
C9_LastErrorRecorded ==
    \A r \in Runners :
        (/\ Finalized(r)
         /\ ~Last(results[r]).success
         /\ attempt[r] = Config(r).retry_attempts
         /\ mix[r] \in {"transient", "limited"}) =>
            Reports(Last(results[r]).error, last_outcome[r], attempt[r])

\* The requests in flight for site s, and for all sites.
InFlight(s) == {r \in Runners : r[2] = s /\ pc[r] = "inflight"}

\* C10: at most max_concurrent requests are in flight for one source, and at most
\* max_concurrent_total in all.
C10_ConcurrencyCaps ==
    /\ \A s \in ConfiguredSites :
           Cardinality(InFlight(s)) <= site_configs(s).max_concurrent
    /\ Cardinality({r \in Runners : pc[r] = "inflight"}) <= max_concurrent_total

\* The coroutines that hold a permit of the global semaphore: from the acquisition
\* to the end of the retry loop, its sleeps included.
Holders == {r \in Runners : pc[r] \in {"inflight", "backoff", "jitter"}}

\* Coroutine r is ready to issue its request and is kept from it.
Blocked(r) == pc[r] = "semwait" /\ semaphore = 0

\* C11: a task that is ready to issue its request is never kept from it by a task
\* of another source that sleeps in a retry back-off or awaits a response.
C11_NoCrossSourceBlocking ==
    \A r \in Runners :
        Blocked(r) => \A q \in Holders : q[2] = r[2]

\* C11, allowing for the global cap: a task is kept from issuing its request only
\* while max_concurrent_total requests are in flight.
C11_BlockedOnlyByRequests ==
    \A r \in Runners :
        Blocked(r) =>
            Cardinality({q \in Runners : pc[q] = "inflight"}) >= max_concurrent_total

\* ---------------------------------------------------------------------
\* PropertyDeduplicator (src/backend/services/property_deduplicator.py)
\* ---------------------------------------------------------------------
\* Scores are counted in units of 1/Scale; price_numeric None is NoPrice.
Scale == 60000
NoPrice == 0 - 1

\* A price string: empty, a "contact agent" wording, an amount, or other words.
PriceText(t, n) == [text |-> t, amount |-> n]
ContactAgent == PriceText("poa", 0)

\* Property(address, suburb, price, price_numeric, bedrooms, bathrooms, parking, link)
Property(a, s, p, pn, b, ba, pk, l) ==
    [address |-> a, suburb |-> s, price |-> p, price_numeric |-> pn,
     bedrooms |-> b, bathrooms |-> ba, parking |-> pk, link |-> l]

\* title case, abbreviations spelled out, spaces squeezed
_standardize_address(address) ==
    CASE address = "1 test st" -> "1 Test Street"
      [] OTHER -> address

\* title case, then the alias table
_standardize_suburb(suburb) ==
    CASE suburb = "bondi" -> "Bondi"
      [] suburb = "Bondi Beach" -> "Bondi"
      [] OTHER -> suburb

\* (price, price_numeric) -> (formatted price, price_numeric)
_standardize_price(price, price_numeric) ==
    IF price.text = "" THEN << ContactAgent, NoPrice >>
    ELSE IF price.text = "poa" THEN << ContactAgent, NoPrice >>
    ELSE LET pn == IF price_numeric = NoPrice /\ price.text = "amount"
                   THEN price.amount ELSE price_numeric
         IN IF pn # NoPrice /\ pn # 0
            THEN << PriceText("amount", pn), pn >>
            ELSE << price, pn >>

_standardize_property(property) ==
    LET pr == _standardize_price(property.price, property.price_numeric)
    IN [property EXCEPT !.address = _standardize_address(@),
                        !.price = pr[1],
                        !.price_numeric = pr[2],
                        !.suburb = _standardize_suburb(@)]

\* difflib.SequenceMatcher(...).ratio() of the normalized addresses, plus 0.1 (at
\* most 1.0) when the leading street numbers agree.
_calculate_address_similarity(addr1, addr2) ==
    IF addr1 = "" \/ addr2 = "" THEN 0
    ELSE IF addr1 = addr2 THEN Scale
    ELSE LET pair == << addr1, addr2 >> IN
         CASE pair = << "1 Test Street", "1 Test Street, Bondi" >> -> 54750
           [] pair = << "1 Test Street, Bondi", "1 Test Street" >> -> 54750
           [] pair = << "1 Test Street", "22 Ocean Road" >> -> 18461
           [] pair = << "22 Ocean Road", "1 Test Street" >> -> 18461
           [] pair = << "1 Test Street, Bondi", "22 Ocean Road" >> -> 22500
           [] pair = << "22 Ocean Road", "1 Test Street, Bondi" >> -> 15000
           [] OTHER -> 0

Abs(x) == IF x < 0 THEN 0 - x ELSE x

Max(a, b) == IF a > b THEN a ELSE b

\* price_tolerance_percent
PriceTolerancePercent == 5

\* diff_percent = |p1 - p2| / ((p1 + p2) / 2) * 100
_calculate_price_similarity(price1, price2) ==
    IF price1 = NoPrice \/ price2 = NoPrice
    THEN (IF price1 = NoPrice /\ price2 = NoPrice THEN Scale ELSE 0)
    ELSE IF price1 = 0 \/ price2 = 0 THEN 0
    ELSE LET diff == Abs(price1 - price2)
             sum == price1 + price2
         IN IF 200 * diff <= PriceTolerancePercent * sum
            THEN Scale - (Scale * 60 * diff) \div (PriceTolerancePercent * sum)
            ELSE Max(0, Scale - (Scale * 4 * diff) \div sum)

\* one feature: 1.0 when equal, 0.5 when one apart (counted in halves)
FeatureHalves(x, y) == IF x = y THEN 2 ELSE IF Abs(x - y) = 1 THEN 1 ELSE 0

_calculate_features_similarity(prop1, prop2) ==
    ((FeatureHalves(prop1.bedrooms, prop2.bedrooms)
      + FeatureHalves(prop1.bathrooms, prop2.bathrooms)
      + FeatureHalves(prop1.parking, prop2.parking)) * Scale) \div 6

\* address_similarity_threshold 0.85, and the price and features thresholds 0.7 and 0.8
AddressThreshold == 51000
PriceThreshold == 42000
FeaturesThreshold == 48000

\* The weights of the four criteria, in tenths.
AddressWeight == 4
PriceWeight == 2
FeaturesWeight == 3
SuburbWeight == 1

\* The four criterion scores of a pair.
CriterionScores(prop1, prop2) ==
    [address |-> _calculate_address_similarity(prop1.address, prop2.address),
     price |-> _calculate_price_similarity(prop1.price_numeric, prop2.price_numeric),
     features |-> _calculate_features_similarity(prop1, prop2),
     suburb |-> IF prop1.suburb = prop2.suburb THEN Scale ELSE 0]

\* match_criteria: the criteria that cleared their threshold
MatchCriteria(sc) ==
    {k \in {"address"} : sc.address >= AddressThreshold}
        \cup {k \in {"price"} : sc.price > PriceThreshold}
        \cup {k \in {"features"} : sc.features > FeaturesThreshold}
        \cup {k \in {"suburb"} : sc.suburb > 0}

\* (mutation: every criterion is counted, cleared or not)
TotalOfAll(sc) ==
      AddressWeight * sc.address + PriceWeight * sc.price
    + FeaturesWeight * sc.features + SuburbWeight * sc.suburb

\* total_score and max_score, in units of 1/(10 * Scale)
TotalScore(sc) ==
    LET crit == MatchCriteria(sc) IN
      (IF "address" \in crit THEN AddressWeight * sc.address ELSE 0)
    + (IF "price" \in crit THEN PriceWeight * sc.price ELSE 0)
    + (IF "features" \in crit THEN FeaturesWeight * sc.features ELSE 0)
    + (IF "suburb" \in crit THEN SuburbWeight * sc.suburb ELSE 0)

MaxScore == (AddressWeight + PriceWeight + FeaturesWeight + SuburbWeight) * Scale

\* total_score / max_score in binary floating point. max_score is the sum
\* 0.4 + 0.2 + 0.3 + 0.1 = 1.0000000000000002, so the quotient comes out just
\* below the decimal value of total_score unless the rounding of the sum of the
\* products makes up for it (the price term without the features term). The
\* score is counted in units of 1/(2 * MaxScore): an odd value is a quotient that
\* fell short of the decimal value by some units in the last place.
FinalScore(sc) ==
    LET crit == MatchCriteria(sc)
        total == TotalScore(sc)
        short == IF total = 0 \/ total = MaxScore THEN 0
                 ELSE IF "price" \in crit /\ "features" \notin crit THEN 0
                 ELSE 1
    IN 2 * total - short

One == 2 * MaxScore
High == (8 * One) \div 10
Medium == (6 * One) \div 10
Low == (4 * One) \div 10

NoMatch == [matched |-> FALSE, property1 |-> "None", property2 |-> "None",
            match_score |-> 0, match_criteria |-> {}, confidence |-> "None"]

\* (mutation: the tiers begin one threshold lower)
ConfidenceShifted(final_score) ==
    IF final_score >= Medium THEN "high"
    ELSE IF final_score >= Low THEN "medium"
    ELSE "low"

\* The confidence of a final score, "None" below the low threshold.
Confidence(final_score) ==
    IF final_score >= High THEN "high"
    ELSE IF final_score >= Medium THEN "medium"
    ELSE IF final_score >= Low THEN "low"
    ELSE "None"

\* PropertyMatch, or NoMatch for None
_compare_properties(prop1, prop2) ==
    LET sc == CriterionScores(prop1, prop2)
        final_score == FinalScore(sc)
        confidence == Confidence(final_score)
    IN IF confidence # "None" /\ Cardinality(MatchCriteria(sc)) >= 2
       THEN [matched |-> TRUE, property1 |-> prop1.link, property2 |-> prop2.link,
             match_score |-> final_score, match_criteria |-> MatchCriteria(sc),
             confidence |-> confidence]
       ELSE NoMatch

\* Python truth of a price_numeric: neither None nor 0
Truthy(price_numeric) == price_numeric # NoPrice /\ price_numeric # 0

\* "Prefer numeric price over Contact Agent": the first property with a truthy
\* price_numeric gives the price when the merged one has none.
RECURSIVE FirstPriced(_)
FirstPriced(props) ==
    IF props = << >> THEN << >>
    ELSE IF Truthy(Head(props).price_numeric) THEN << Head(props) >>
    ELSE FirstPriced(Tail(props))

\* "Take the most complete address": each longer address replaces the merged one.
RECURSIVE LongestAddress(_, _)
LongestAddress(address, props) ==
    IF props = << >> THEN address
    ELSE LongestAddress(IF Len(Head(props).address) > Len(address)
                        THEN Head(props).address ELSE address,
                        Tail(props))

\* The merged property has the first one's fields but for the price and the address;
\* no link of the records at hand names a site of link_priority, so the first link
\* stays.
_merge_properties(props) ==
    IF Len(props) = 1 THEN props[1]
    ELSE LET base == props[1]
             priced == FirstPriced(props)
             withPrice == IF ~Truthy(base.price_numeric) /\ priced # << >>
                          THEN [base EXCEPT !.price = priced[1].price,
                                            !.price_numeric = priced[1].price_numeric]
                          ELSE base
         IN [withPrice EXCEPT !.address = LongestAddress(base.address, props)]

\* The records that listings are drawn from.
Amount(n) == PriceText("amount", n)

Pool ==
    { Property("1 Test Street", "Bondi", Amount(990), 990, 2, 1, 1, "r1"),
      Property("1 test st", "bondi", Amount(1010), 1010, 2, 1, 1, "r2"),
      Property("1 Test Street", "Bondi", Amount(390), 390, 2, 1, 1, "r3"),
      Property("1 Test Street", "Bondi", Amount(410), NoPrice, 2, 1, 1, "r4"),
      Property("1 Test Street", "Bondi", Amount(0), 0, 2, 1, 1, "r5"),
      Property("1 Test Street, Bondi", "Bondi Beach", PriceText("", 0), NoPrice, 2, 1, 1, "r6"),
      Property("", "Bondi", PriceText("", 0), 990, 1, 1, 1, "r7"),
      Property("", "Bondi", PriceText("poa", 0), NoPrice, 2, 1, 1, "r8"),
      Property("", "Bondi", PriceText("other", 0), NoPrice, 3, 1, 1, "r9"),
      Property("22 Ocean Road", "Chatswood", Amount(990), 990, 4, 3, 0, "r10"),
      Property("", "Bondi", Amount(990), 990, 2, 1, 1, "r11") }

\* the longest list handed to deduplicate_properties
MaxProperties == 3

RECURSIVE Lists(_, _)
Lists(S, n) ==
    IF n = 0 THEN {<< >>}
    ELSE LET shorter == Lists(S, n - 1)
         IN shorter \cup {Append(l, x) : l \in {m \in shorter : Len(m) = n - 1}, x \in S}

\* The fetcher is not in use.
FetcherIdle ==
    /\ input = << >>
    /\ max_concurrent_total = DefaultTotal
    /\ Fresh

\* deduplicate_properties is called with a list of at most MaxProperties records.
DedupInit ==
    /\ properties \in Lists(Pool, MaxProperties)
    /\ standardized_properties = << >>
    /\ unique_properties = << >>
    /\ matches = << >>
    /\ processed_indices = {}
    /\ anchor = 1
    /\ dpc = "call"
    /\ groups = << >>
    /\ FetcherIdle
    /\ RankIdle
    /\ EngineIdle

\* Step 1: standardize all properties
Standardize ==
    /\ dpc = "call"
    /\ standardized_properties' =
           [k \in 1 .. Len(properties) |-> _standardize_property(properties[k])]
    /\ dpc' = "loop"
    /\ UNCHANGED << properties, unique_properties, matches, processed_indices, anchor,
                    groups >>

\* (mutation: every later record counts as a duplicate of record i)
all_later(i, j) ==
    [k \in 1 .. Len(standardized_properties) - i |-> [idx |-> i + k, match |-> NoMatch]]

\* (mutation: no later record is found to match record i)
no_matches(i, j) == << >>

\* (mutation: records already processed are compared again)
RECURSIVE matches_of_all(_, _)
matches_of_all(i, j) ==
    IF j > Len(standardized_properties) THEN << >>
    ELSE LET match == _compare_properties(standardized_properties[i],
                                          standardized_properties[j])
         IN (IF match.matched THEN << [idx |-> j, match |-> match] >> ELSE << >>)
            \o matches_of_all(i, j + 1)

\* current_matches of the outer loop at i: the (j, match) with j after i, j not
\* processed and a match of standardized i and j, in the order of j.
RECURSIVE current_matches(_, _)
current_matches(i, j) ==
    IF j > Len(standardized_properties) THEN << >>
    ELSE LET match == _compare_properties(standardized_properties[i],
                                          standardized_properties[j])
         IN (IF j \notin processed_indices /\ match.matched
             THEN << [idx |-> j, match |-> match] >> ELSE << >>)
            \o current_matches(i, j + 1)

InLoop == dpc = "loop" /\ anchor <= Len(standardized_properties)

\* if i in processed_indices: continue
SkipProcessed ==
    /\ InLoop
    /\ anchor \in processed_indices
    /\ anchor' = anchor + 1
    /\ UNCHANGED << properties, standardized_properties, unique_properties, matches,
                    processed_indices, dpc, groups >>

\* "This property has duplicates - merge them"
MergeDuplicates ==
    /\ InLoop
    /\ anchor \notin processed_indices
    /\ LET cm == current_matches(anchor, anchor + 1)
           indices_to_mark == {anchor} \cup {cm[k].idx : k \in 1 .. Len(cm)}
           properties_to_merge ==
               << standardized_properties[anchor] >>
                   \o [k \in 1 .. Len(cm) |-> standardized_properties[cm[k].idx]]
       IN /\ cm # << >>
          /\ matches' = matches \o [k \in 1 .. Len(cm) |-> cm[k].match]
          /\ unique_properties' =
                 Append(unique_properties, _merge_properties(properties_to_merge))
          /\ processed_indices' = processed_indices \cup indices_to_mark
          /\ groups' = Append(groups, indices_to_mark)
    /\ anchor' = anchor + 1
    /\ UNCHANGED << properties, standardized_properties, dpc >>

\* "No duplicates found, add as unique"
AddUnique ==
    /\ InLoop
    /\ anchor \notin processed_indices
    /\ current_matches(anchor, anchor + 1) = << >>
    /\ unique_properties' = Append(unique_properties, standardized_properties[anchor])
    /\ processed_indices' = processed_indices \cup {anchor}
    /\ groups' = Append(groups, {anchor})
    /\ anchor' = anchor + 1
    /\ UNCHANGED << properties, standardized_properties, matches, dpc >>

\* The DeduplicationResult is returned.
DedupReturn ==
    /\ dpc = "loop"
    /\ anchor > Len(standardized_properties)
    /\ dpc' = "returned"
    /\ UNCHANGED << properties, standardized_properties, unique_properties, matches,
                    processed_indices, anchor, groups >>

\* duplicates_found of the result
duplicates_found == Len(properties) - Len(unique_properties)

DedupNext ==
    \/ Standardize /\ UNCHANGED << fvars, rvars, evars >>
    \/ SkipProcessed /\ UNCHANGED << fvars, rvars, evars >>
    \/ MergeDuplicates /\ UNCHANGED << fvars, rvars, evars >>
    \/ AddUnique /\ UNCHANGED << fvars, rvars, evars >>
    \/ DedupReturn /\ UNCHANGED << fvars, rvars, evars >>

DedupSpec == DedupInit /\ [][DedupNext]_vars

\* Standardized records i and j satisfy the match rule, in the order the loop
\* compares them.
Matching(i, j) ==
    _compare_properties(standardized_properties[i], standardized_properties[j]).matched

\* C12: the unique records are at most as many as the records given, and exactly
\* as many when no two standardized records satisfy the match rule.
C12_NoMoreThanGiven ==
    dpc = "returned" =>
        /\ Len(unique_properties) <= Len(properties)
        /\ (\A i, j \in 1 .. Len(properties) : i < j => ~Matching(i, j)) =>
               Len(unique_properties) = Len(properties)

\* A list of three records none of which matches another has been deduplicated.
C12_AllUnique ==
    /\ dpc = "returned"
    /\ Len(properties) = MaxProperties
    /\ \A i, j \in 1 .. Len(properties) : i < j => ~Matching(i, j)
    /\ Len(unique_properties) = MaxProperties

\* Input records a and b satisfy the match rule (compared in input order).
Matched(a, b) == a # b /\ Matching(Min(a, b), Max(a, b))

\* Input records a and b went into the same unique record.
Together(a, b) == \E g \in 1 .. Len(groups) : {a, b} \subseteq groups[g]

\* C13: when A matches B and B matches C, all three are merged into one record,
\* whatever the order of the input.
C13_TransitiveGroups ==
    dpc = "returned" =>
        \A a, b, c \in 1 .. Len(properties) :
            (Matched(a, b) /\ Matched(b, c)) => Together(a, b) /\ Together(b, c)

\* C14: a merged record has a numeric price when a record of its group has one,
\* a price of 0 included.
C14_MergedPriceKept ==
    \A g \in 1 .. Len(groups) :
        (/\ Cardinality(groups[g]) > 1
         /\ \E k \in groups[g] : standardized_properties[k].price_numeric # NoPrice) =>
            unique_properties[g].price_numeric # NoPrice

\* The number of criteria of a pair that cleared their own threshold.
Cleared(sc) ==
      (IF sc.address >= AddressThreshold THEN 1 ELSE 0)
    + (IF sc.price > PriceThreshold THEN 1 ELSE 0)
    + (IF sc.features > FeaturesThreshold THEN 1 ELSE 0)
    + (IF sc.suburb > 0 THEN 1 ELSE 0)

\* The pairs the loop has compared and accepted.
AcceptedPairs ==
    {p \in (1 .. Len(standardized_properties)) \X (1 .. Len(standardized_properties)) :
        /\ p[1] < p[2]
        /\ \E k \in 1 .. Len(matches) :
               matches[k] = _compare_properties(standardized_properties[p[1]],
                                                standardized_properties[p[2]])}

\* C15: every accepted match has a composite score of at least 0.4 and at least two
\* criteria that cleared their threshold; it is high from 0.8, medium from 0.6 and
\* low from 0.4; its score lies in [0, 1]; and each is the match of a compared pair.
C15_AcceptanceRule ==
    /\ \A k \in 1 .. Len(matches) :
           LET m == matches[k] IN
           /\ m.matched
           /\ m.match_score >= Low
           /\ m.match_score >= 0 /\ m.match_score <= One
           /\ m.confidence = "high" <=> m.match_score >= High
           /\ m.confidence = "medium" <=> (m.match_score >= Medium /\ m.match_score < High)
           /\ m.confidence = "low" <=> (m.match_score >= Low /\ m.match_score < Medium)
    /\ matches # << >> => AcceptedPairs # {}
    /\ \A p \in AcceptedPairs :
           Cleared(CriterionScores(standardized_properties[p[1]],
                                   standardized_properties[p[2]])) >= 2

\* A call found a match of high and a match of low confidence.
C15_HighAndLow ==
    /\ dpc = "returned"
    /\ \E k \in 1 .. Len(matches) : matches[k].confidence = "high"
    /\ \E k \in 1 .. Len(matches) : matches[k].confidence = "low"

\* Standardized records i and j are the same in address, suburb, bedrooms, bathrooms
\* and parking, and their numeric prices are within the tolerance of each other.
AlikeWithinTolerance(i, j) ==
    LET p == standardized_properties[i]
        q == standardized_properties[j]
    IN /\ p.address = q.address /\ p.suburb = q.suburb
       /\ p.bedrooms = q.bedrooms /\ p.bathrooms = q.bathrooms /\ p.parking = q.parking
       /\ p.price_numeric # NoPrice /\ q.price_numeric # NoPrice
       /\ 200 * Abs(p.price_numeric - q.price_numeric)
              <= PriceTolerancePercent * (p.price_numeric + q.price_numeric)

\* C16: two such records are a match of high confidence, and a list of just the
\* two comes back as one record.
C16_AlikeMergedHigh ==
    \A i, j \in 1 .. Len(standardized_properties) :
        (i < j /\ AlikeWithinTolerance(i, j)) =>
            LET m == _compare_properties(standardized_properties[i],
                                         standardized_properties[j])
            IN /\ m.matched /\ m.confidence = "high"
               /\ (dpc = "returned" /\ Len(properties) = 2) => Len(unique_properties) = 1

\* ---------------------------------------------------------------------
\* PropertyRecommendationService (src/app/services/recommendation_service.py)
\* ---------------------------------------------------------------------
\* Sub-scores are counted in units of 1/RScale, weights in hundredths, the total
\* score in hundredths of a point. Null stands for None.
RScale == 10000

\* sort_key's float('inf') and _price_delta_to_user's 1e9
Infinity == 2000000000
FarAway == 1000000000

\* self.weights, in hundredths
weights ==
    [priceU |-> 34, area |-> 22, beds |-> 14, baths |-> 8, ptype |-> 6,
     priceA |-> 8, park |-> 5, features |-> 2, fresh |-> 1]

SubScoreNames == DOMAIN weights

\* PropertyModel: the fields the service reads. features is the set of its feature
\* words, scraped_at the age in days of a valid timestamp (Null: empty or invalid).
PropertyModel(id, price, location, bedrooms, bathrooms, parking, ptype, features, scraped) ==
    [id |-> id, price |-> price, location |-> location, bedrooms |-> bedrooms,
     bathrooms |-> bathrooms, parking |-> parking, property_type |-> ptype,
     features |-> features, scraped_at |-> scraped]

\* re.search(r'\$?(\d+)', price_str): the first run of digits, None without one
_extract_price_per_week(price_str) ==
    IF price_str.text = "amount" THEN price_str.amount ELSE Null

\* str.strip().lower()
Lower(str) ==
    CASE str = "Bondi" -> "bondi"
      [] str = "Chatswood" -> "chatswood"
      [] str = "Bondi NSW 2026" -> "bondi nsw 2026"
      [] str = "Bondi Junction NSW 2022" -> "bondi junction nsw 2022"
      [] str = "Chatswood NSW 2067" -> "chatswood nsw 2067"
      [] OTHER -> str

\* sub in text, for lower-case strings
IsSubstring(sub, text) ==
    \/ sub = ""
    \/ sub = text
    \/ sub = "bondi" /\ text \in {"bondi nsw 2026", "bondi junction nsw 2022"}
    \/ sub = "chatswood" /\ text = "chatswood nsw 2067"

\* (mutation: the bedroom minimum is not applied)
PassesWithoutBedrooms(prop, q) ==
    /\ IsSubstring(Lower(q.suburb), Lower(prop.location))
    /\ q.baths_min # Null => (prop.bathrooms # Null /\ prop.bathrooms >= q.baths_min)
    /\ q.must_park => (prop.parking # Null /\ prop.parking > 0)

_passes_hard_filters(prop, q) ==
    /\ Lower(q.suburb) # "" => IsSubstring(Lower(q.suburb), Lower(prop.location))
    /\ q.beds_min # Null => (prop.bedrooms # Null /\ prop.bedrooms >= q.beds_min)
    /\ q.baths_min # Null => (prop.bathrooms # Null /\ prop.bathrooms >= q.baths_min)
    /\ q.must_park => (prop.parking # Null /\ prop.parking > 0)

\* (mutation: the value is not cut to [0, 1])
Unclamped(value) == value

\* max(0.0, min(1.0, value))
_clamp01(value) == Max(0, Min(RScale, value))

\* center = (pmin + pmax) / 2; scale = max(30.0, (pmax - pmin) / 2 or 30.0)
_score_price_user(price_pw, pmin, pmax) ==
    IF price_pw = Null \/ pmin = Null \/ pmax = Null THEN 3000
    ELSE LET twice_scale == Max(60, IF pmax - pmin = 0 THEN 60 ELSE pmax - pmin)
             twice_dist == Abs(2 * price_pw - (pmin + pmax))
         IN _clamp01(RScale - (RScale * twice_dist) \div twice_scale)

\* {0: 1.0, 1: 0.8, 2: 0.6}.get(diff, 0.5)
ByDiff(diff) ==
    CASE diff = 0 -> 10000 [] diff = 1 -> 8000 [] diff = 2 -> 6000 [] OTHER -> 5000

_score_bedrooms(bedrooms, beds_min) ==
    IF beds_min = Null
    THEN (IF bedrooms = Null THEN 7000 ELSE 7000 + (1500 * Min(bedrooms, 2)) \div 2)
    ELSE IF bedrooms = Null \/ bedrooms < beds_min THEN 0
    ELSE ByDiff(bedrooms - beds_min)

_score_bathrooms(bathrooms, baths_min) ==
    IF baths_min = Null
    THEN (IF bathrooms = Null THEN 7000
          ELSE Min(RScale, 7000 + (3000 * Min(bathrooms, 2)) \div 2))
    ELSE IF bathrooms = Null \/ bathrooms < baths_min THEN 0
    ELSE ByDiff(bathrooms - baths_min)

similar_types == {"apartment", "unit", "flat"}

_score_property_type(prop_type, want_type) ==
    IF want_type = "" THEN 7000
    ELSE IF prop_type = want_type THEN 10000
    ELSE IF {prop_type, want_type} \subseteq similar_types THEN 7000
    ELSE 2000

\* rel = (price_pw - area_min) / (area_max - area_min + 1e-9)
_score_price_area(price_pw, area_min, area_max) ==
    IF price_pw = Null \/ area_min = Null \/ area_max = Null THEN 5000
    ELSE IF area_min >= area_max THEN 5000
    ELSE LET range == area_max - area_min IN
         IF area_min <= price_pw /\ price_pw <= area_max
         THEN _clamp01(RScale - (RScale * Abs(30 * (price_pw - area_min) - 12 * range))
                                    \div (50 * range))
         ELSE LET over == IF price_pw < area_min THEN area_min - price_pw
                          ELSE price_pw - area_max
              IN _clamp01(RScale - (RScale * 3 * over) \div Max(150, range))

\* (mutation: a parking count of 0 counts as parking)
ParkingWhenCounted(parking, must_park) ==
    LET has_parking == parking # Null IN
    IF must_park THEN (IF has_parking THEN 10000 ELSE 0)
    ELSE (IF has_parking THEN 10000 ELSE 7000)

\* has_parking = isinstance(parking, int) and parking > 0
_score_parking(parking, must_park) ==
    LET has_parking == parking # Null /\ parking > 0 IN
    IF must_park THEN (IF has_parking THEN 10000 ELSE 0)
    ELSE (IF has_parking THEN 10000 ELSE 7000)

bonus_features == {"air conditioning", "balcony", "furnished", "dishwasher", "gym", "pool"}

\* 0.2 for each bonus feature found in the text of the features, at most 1.0
_score_features(features) ==
    Min(RScale, 2000 * Cardinality(features \cap bonus_features))

\* days since scraped_at; 0.7 when it is empty or does not parse
_score_freshness(scraped_at) ==
    IF scraped_at = Null THEN 7000
    ELSE IF scraped_at <= 7 THEN 10000
    ELSE IF scraped_at <= 30 THEN 8500
    ELSE IF scraped_at <= 90 THEN 6000
    ELSE 4000

\* The nine sub-scores of a property, each before its weight is applied.
SubScores(prop, q, area_min, area_max) ==
    LET price_pw == _extract_price_per_week(prop.price) IN
    [priceU |-> _score_price_user(price_pw, q.pmin, q.pmax),
     area |-> RScale,
     beds |-> _score_bedrooms(prop.bedrooms, q.beds_min),
     baths |-> _score_bathrooms(prop.bathrooms, q.baths_min),
     ptype |-> _score_property_type(prop.property_type, q.propertyType),
     priceA |-> _score_price_area(price_pw, area_min, area_max),
     park |-> _score_parking(prop.parking, q.must_park),
     features |-> _score_features(prop.features),
     fresh |-> _score_freshness(prop.scraped_at)]

\* round(x, 2) of a value given in 1/100 of a hundredth
Round2(x) == (x + 50) \div 100

\* 100 * (sum of weight * sub-score), in 1/100 of a hundredth of a point
Weighted(sub) ==
      weights.priceU * sub.priceU + weights.area * sub.area + weights.beds * sub.beds
    + weights.baths * sub.baths + weights.ptype * sub.ptype + weights.priceA * sub.priceA
    + weights.park * sub.park + weights.features * sub.features
    + weights.fresh * sub.fresh

\* score_info of a property (no sub-score raises for a PropertyModel, so the
\* except branch that returns None is never taken)
_calculate_score(prop, q, area_min, area_max) ==
    LET sub == SubScores(prop, q, area_min, area_max) IN
    [id |-> prop.id,
     score |-> Round2(Weighted(sub)),
     price_pw |-> _extract_price_per_week(prop.price),
     bedrooms |-> prop.bedrooms,
     bathrooms |-> prop.bathrooms,
     parking |-> prop.parking,
     address |-> prop.location,
     subscores |-> [k \in SubScoreNames |-> Round2(weights[k] * sub[k])]]

\* twice the distance of the price from (pmin + pmax) / 2, FarAway when one is None
_price_delta_to_user(recommendation, q) ==
    IF q.pmin = Null \/ q.pmax = Null \/ recommendation.price_pw = Null THEN 2 * FarAway
    ELSE Abs(2 * recommendation.price_pw - (q.pmin + q.pmax))

\* x.get('price_pw') or float('inf')
price_value(x) == IF x.price_pw = Null \/ x.price_pw = 0 THEN Infinity ELSE x.price_pw

\* (-x['score'], price_delta, price_value)
sort_key(x, q) == << 0 - x.score, _price_delta_to_user(x, q), price_value(x) >>

\* tuple comparison of two sort keys
KeyLess(k1, k2) ==
    \/ k1[1] < k2[1]
    \/ k1[1] = k2[1] /\ k1[2] < k2[2]
    \/ k1[1] = k2[1] /\ k1[2] = k2[2] /\ k1[3] < k2[3]

\* list.sort(key=sort_key): stable, records of equal key keep their order
RECURSIVE InsertSorted(_, _, _)
InsertSorted(sorted, x, q) ==
    IF sorted = << >> THEN << x >>
    ELSE IF KeyLess(sort_key(x, q), sort_key(Head(sorted), q))
         THEN << x >> \o sorted
         ELSE << Head(sorted) >> \o InsertSorted(Tail(sorted), x, q)

RECURSIVE Sort(_, _)
Sort(list, q) ==
    IF list = << >> THEN << >>
    ELSE InsertSorted(Sort(SubSeq(list, 1, Len(list) - 1), q), list[Len(list)], q)

\* area_min and area_max: the least and the greatest price of all properties given
AreaPrices(props) ==
    {_extract_price_per_week(props[k].price) : k \in 1 .. Len(props)} \ {Null}

AreaMin(props) ==
    IF AreaPrices(props) = {} THEN Null
    ELSE CHOOSE x \in AreaPrices(props) : \A y \in AreaPrices(props) : x <= y

AreaMax(props) ==
    IF AreaPrices(props) = {} THEN Null
    ELSE CHOOSE x \in AreaPrices(props) : \A y \in AreaPrices(props) : x >= y

\* the properties that pass the hard filters, scored, in the order given
RECURSIVE Scored(_, _, _)
Scored(props, q, all) ==
    IF props = << >> THEN << >>
    ELSE (IF _passes_hard_filters(Head(props), q)
          THEN << _calculate_score(Head(props), q, AreaMin(all), AreaMax(all)) >>
          ELSE << >>)
         \o Scored(Tail(props), q, all)

\* (mutation: the result is not cut at topk)
recommend_unlimited(props, q, k) ==
    IF props = << >> THEN << >> ELSE Sort(Scored(props, q, props), q)

\* recommendations[:topk] of the scored properties, sorted
recommend_properties(props, q, k) ==
    IF props = << >> THEN << >>
    ELSE LET sorted == Sort(Scored(props, q, props), q)
         IN SubSeq(sorted, 1, Min(k, Len(sorted)))

\* The listings and the queries that recommend_properties is given.
AllBonus == bonus_features

Listings ==
    { PropertyModel("p1", Amount(0), "Bondi NSW 2026", 2, 1, 1, "apartment", {}, Null),
      PropertyModel("p2", Amount(800), "Bondi NSW 2026", 2, 1, 1, "apartment", {}, Null),
      PropertyModel("p3", Amount(1000), "Bondi NSW 2026", 2, 1, 1, "apartment", {}, Null),
      PropertyModel("p4", PriceText("", 0), "Bondi Junction NSW 2022", Null, Null, Null,
                    "unit", {"balcony", "gym"}, 3),
      PropertyModel("p5", PriceText("poa", 0), "Chatswood NSW 2067", 1, 1, 0, "house",
                    {"pool", "garden"}, 45),
      PropertyModel("p6", Amount(400), "Bondi NSW 2026", 3, 2, 2, "flat", AllBonus, 200),
      PropertyModel("p7", Amount(450), "", 1, 3, 0, "", {"garden"}, 20) }

Query(suburb, beds_min, baths_min, pmin, pmax, must_park, ptype) ==
    [suburb |-> suburb, beds_min |-> beds_min, baths_min |-> baths_min, pmin |-> pmin,
     pmax |-> pmax, must_park |-> must_park, propertyType |-> ptype]

Queries ==
    { Query("", Null, Null, Null, Null, FALSE, ""),
      Query("Bondi", 2, Null, Null, Null, FALSE, ""),
      Query("", Null, Null, 300, 500, FALSE, "apartment"),
      Query("bondi", Null, 1, 700, 900, TRUE, "unit"),
      Query("chatswood", 1, 1, 400, 400, FALSE, "house") }

\* the longest list of listings and the largest topk
MaxListings == 3
MaxTopK == 3

RankInit ==
    /\ search_request = "None"
    /\ file_default = "None"
    /\ listings \in Lists(Listings, MaxListings)
    /\ query \in Queries
    /\ topk \in 0 .. MaxTopK
    /\ recommendations = << >>
    /\ rpc = "call"
    /\ FetcherIdle
    /\ DedupIdle
    /\ EngineIdle

\* recommend_properties(properties, query, topk) returns
Recommend ==
    /\ rpc = "call"
    /\ recommendations' = recommend_properties(listings, query, topk)
    /\ rpc' = "returned"
    /\ UNCHANGED << search_request, file_default, listings, query, topk >>

RankNext == Recommend /\ UNCHANGED << fvars, dvars, evars >>

RankSpec == RankInit /\ [][RankNext]_vars

\* C17: no returned record violates a hard filter of the query: the query's suburb
\* is a substring of its location, its bedrooms and bathrooms are present and at
\* least the minimum asked for, and it has parking when parking is required.
C17_HardFiltersHold ==
    rpc = "returned" =>
        \A k \in 1 .. Len(recommendations) :
            LET x == recommendations[k] IN
            /\ query.suburb # "" => IsSubstring(Lower(query.suburb), Lower(x.address))
            /\ query.beds_min # Null => (x.bedrooms # Null /\ x.bedrooms >= query.beds_min)
            /\ query.baths_min # Null =>
                   (x.bathrooms # Null /\ x.bathrooms >= query.baths_min)
            /\ query.must_park => (x.parking # Null /\ x.parking > 0)

\* Scenario C: of a one-bedroom Chatswood listing and a two-bedroom Bondi listing,
\* the query for Bondi with two bedrooms returns the Bondi listing alone.
C17_OnlyBondi ==
    /\ rpc = "returned"
    /\ query.suburb = "Bondi" /\ query.beds_min = 2
    /\ \E k \in 1 .. Len(listings) : listings[k].id = "p5"
    /\ \E k \in 1 .. Len(listings) : listings[k].id = "p2"
    /\ Len(recommendations) = 1 /\ recommendations[1].id = "p2"

\* The price a record is ordered by when score and distance tie: its weekly price,
\* a price of 0 included; a record without a price comes after every priced one.
RawPrice(x) == IF x.price_pw = Null THEN Infinity ELSE x.price_pw

\* x may stand right before y in the ranked output.
InOrder(x, y) ==
    \/ x.score > y.score
    \/ /\ x.score = y.score
       /\ _price_delta_to_user(x, query) < _price_delta_to_user(y, query)
    \/ /\ x.score = y.score
       /\ _price_delta_to_user(x, query) = _price_delta_to_user(y, query)
       /\ RawPrice(x) <= RawPrice(y)

\* C18: of any two adjacent entries of the returned list the earlier one has the
\* higher score; on equal scores the smaller distance of its price from the midpoint
\* of the query's price range; on equal distance the lower raw price, a price of 0
\* included.
C18_SortedByScoreDistancePrice ==
    rpc = "returned" =>
        \A k \in 1 .. Len(recommendations) - 1 :
            InOrder(recommendations[k], recommendations[k + 1])

\* C18 for the records whose price is not 0.
C18_SortedWhenPriced ==
    rpc = "returned" =>
        \A k \in 1 .. Len(recommendations) - 1 :
            (recommendations[k].price_pw # 0 /\ recommendations[k + 1].price_pw # 0)
                => InOrder(recommendations[k], recommendations[k + 1])

\* The positions of the listings given that pass every hard filter of the query.
Passing == {k \in 1 .. Len(listings) : _passes_hard_filters(listings[k], query)}

\* C19: recommend_properties returns exactly min(K, n) records, n being the number
\* of records given that pass every hard filter: never more than K, and no passing
\* record is left out for missing or unparsable data.
C19_ExactlyMinOfLimitAndPassing ==
    rpc = "returned" => Len(recommendations) = Min(topk, Cardinality(Passing))

\* Every passing record is returned when the limit allows it, the ones without a
\* price or without room counts included.
C19_NoPassingRecordLeftOut ==
    (rpc = "returned" /\ topk >= Cardinality(Passing)) =>
        \A k \in Passing : \E j \in 1 .. Len(recommendations) :
            recommendations[j].id = listings[k].id

\* A call that cuts the result at the limit and returns a record whose price text
\* holds no number, scored with the default sub-scores for the price.
C19_LimitedWithDefaults ==
    /\ rpc = "returned"
    /\ Cardinality(Passing) > topk /\ Len(recommendations) = topk
    /\ \E j \in 1 .. Len(recommendations) :
           /\ recommendations[j].price_pw = Null
           /\ recommendations[j].bedrooms = Null
           /\ recommendations[j].subscores.priceU = Round2(weights.priceU * 3000)
           /\ recommendations[j].subscores.priceA = Round2(weights.priceA * 5000)

\* sum(self.weights.values()), in hundredths
WeightSum ==
      weights.priceU + weights.area + weights.beds + weights.baths + weights.ptype
    + weights.priceA + weights.park + weights.features + weights.fresh

\* The nine sub-scores of the k-th listing given, as _calculate_score computes them.
SubScoresOf(k) == SubScores(listings[k], query, AreaMin(listings), AreaMax(listings))

\* C20: each of the nine sub-scores of every record lies in [0, 1], the weights sum
\* to exactly 1.0, and the final score lies in [0, 100].
C20_ScoresInRange ==
    rpc = "returned" =>
        /\ \A k \in 1 .. Len(listings) : \A n \in SubScoreNames :
               SubScoresOf(k)[n] >= 0 /\ SubScoresOf(k)[n] <= RScale
        /\ Cardinality(SubScoreNames) = 9
        /\ WeightSum = 100
        /\ \A k \in 1 .. Len(listings) :
               LET total == Round2(Weighted(SubScoresOf(k)))
               IN total >= 0 /\ total <= 100 * 100
        /\ \A j \in 1 .. Len(recommendations) :
               recommendations[j].score >= 0 /\ recommendations[j].score <= 100 * 100

\* A call in which one record's price is so far from the range asked for that its
\* price score is cut to 0, and another has all six bonus features, so that its
\* features score is cut to 1.
C20_BothEndsReached ==
    /\ rpc = "returned"
    /\ query.pmin # Null
    /\ \E k \in 1 .. Len(listings) :
           /\ _extract_price_per_week(listings[k].price) > query.pmax
           /\ SubScoresOf(k).priceU = 0
    /\ \E k \in 1 .. Len(listings) :
           /\ listings[k].features = AllBonus
           /\ SubScoresOf(k).features = RScale
    /\ Len(recommendations) >= 2

\* The k-th listing given has parking.
HasParking(k) == listings[k].parking # Null /\ listings[k].parking > 0

\* C22: the parking sub-score is 1.0 when parking is required and available,
\* strictly between 0 and 1 when parking is available but not required, and 0 when
\* parking is required and unavailable.
C22_ParkingPartialWhenNotRequired ==
    rpc = "returned" =>
        \A k \in 1 .. Len(listings) :
            LET park == SubScoresOf(k).park IN
            /\ (query.must_park /\ HasParking(k)) => park = RScale
            /\ (~query.must_park /\ HasParking(k)) => (park > 0 /\ park < RScale)
            /\ (query.must_park /\ ~HasParking(k)) => park = 0

\* C22 as the code has it: the parking sub-score is 1.0 whenever parking is
\* available, required or not; strictly between 0 and 1 when parking is unavailable
\* and not required; and 0 when parking is required and unavailable.
C22_ParkingFullWhenAvailable ==
    rpc = "returned" =>
        \A k \in 1 .. Len(listings) :
            LET park == SubScoresOf(k).park IN
            /\ HasParking(k) => park = RScale
            /\ (~query.must_park /\ ~HasParking(k)) => (park > 0 /\ park < RScale)
            /\ (query.must_park /\ ~HasParking(k)) => park = 0

\* A query that does not require parking, given a listing with parking, one with a
\* parking count of 0 and one with no parking count.
C22_NotRequiredBothKinds ==
    /\ rpc = "returned"
    /\ ~query.must_park
    /\ \E k \in 1 .. Len(listings) : HasParking(k) /\ SubScoresOf(k).park = RScale
    /\ \E k \in 1 .. Len(listings) :
           listings[k].parking = 0 /\ SubScoresOf(k).park = 7000
    /\ \E k \in 1 .. Len(listings) :
           listings[k].parking = Null /\ SubScoresOf(k).park = 7000

\* A query that requires parking, given a listing with parking and one without.
C22_RequiredBothKinds ==
    /\ rpc = "returned"
    /\ query.must_park
    /\ \E k \in 1 .. Len(listings) : HasParking(k) /\ SubScoresOf(k).park = RScale
    /\ \E k \in 1 .. Len(listings) : ~HasParking(k) /\ SubScoresOf(k).park = 0

\* The criterion scores of an accepted pair of standardized records.
ScoresOfPair(p) ==
    CriterionScores(standardized_properties[p[1]], standardized_properties[p[2]])

\* The match of an accepted pair.
MatchOfPair(p) ==
    _compare_properties(standardized_properties[p[1]], standardized_properties[p[2]])

\* Twice the weighted sum of all four criterion scores, in the unit of match_score.
SumOfAll(sc) ==
    2 * (4 * sc.address + 2 * sc.price + 3 * sc.features + 1 * sc.suburb)

\* Twice the weighted sum of the criterion scores that cleared their threshold.
SumOfCleared(sc) ==
    2 * ( (IF sc.address >= AddressThreshold THEN 4 * sc.address ELSE 0)
        + (IF sc.price > PriceThreshold THEN 2 * sc.price ELSE 0)
        + (IF sc.features > FeaturesThreshold THEN 3 * sc.features ELSE 0)
        + (IF sc.suburb > 0 THEN 1 * sc.suburb ELSE 0) )

\* C23: the composite score of a pair is 0.4 x address + 0.2 x price + 0.3 x features
\* + 0.1 x suburb, of all four criterion scores, whether or not each cleared its
\* threshold (taken up to the rounding of the division by max_score).
C23_CompositeOfAllFour ==
    \A p \in AcceptedPairs :
        /\ MatchOfPair(p).match_score <= SumOfAll(ScoresOfPair(p))
        /\ MatchOfPair(p).match_score >= SumOfAll(ScoresOfPair(p)) - 1

\* C23 as the code has it: the composite score is the weighted sum of the criterion
\* scores that cleared their own threshold, a criterion below its threshold counting
\* as 0, divided by max_score (the quotient is the sum or just below it).
C23_CompositeOfCleared ==
    \A p \in AcceptedPairs :
        /\ MatchOfPair(p).match_score <= SumOfCleared(ScoresOfPair(p))
        /\ MatchOfPair(p).match_score >= SumOfCleared(ScoresOfPair(p)) - 1

\* An accepted pair with a criterion that scored above 0 and below its threshold:
\* prices exactly at the tolerance score 0.7, which does not pass "> 0.7".
C23_UnclearedCriterion ==
    /\ dpc = "returned"
    /\ \E p \in AcceptedPairs :
           /\ ScoresOfPair(p).price > 0
           /\ ScoresOfPair(p).price <= PriceThreshold
           /\ ScoresOfPair(p).address >= AddressThreshold

\* The numeric price of the i-th standardized record.
PriceOf(i) == standardized_properties[i].price_numeric

\* The prices of records i and j are numeric and differ by at most the tolerance
\* percentage of their mean, which is not 0:
\* 100 * |p1 - p2| / ((p1 + p2) / 2) <= tolerance.
WithinTolerance(i, j) ==
    /\ PriceOf(i) # NoPrice /\ PriceOf(j) # NoPrice
    /\ PriceOf(i) + PriceOf(j) > 0
    /\ 200 * Abs(PriceOf(i) - PriceOf(j)) <= PriceTolerancePercent * (PriceOf(i) + PriceOf(j))

\* The prices of records i and j are numeric and differ by more than the tolerance.
BeyondTolerance(i, j) ==
    /\ PriceOf(i) # NoPrice /\ PriceOf(j) # NoPrice
    /\ 200 * Abs(PriceOf(i) - PriceOf(j)) > PriceTolerancePercent * (PriceOf(i) + PriceOf(j))

\* C24: the price similarity of two records with numeric prices is 1.0 whenever the
\* prices differ by at most the tolerance percentage, and never increases as the
\* percentage difference grows beyond the tolerance; it is 1.0 when neither record has
\* a numeric price.
C24_PriceSimilarity ==
    LET n == Len(standardized_properties) IN
    /\ \A i, j \in 1 .. n :
           WithinTolerance(i, j) =>
               _calculate_price_similarity(PriceOf(i), PriceOf(j)) = Scale
    /\ \A i, j \in 1 .. n :
           (PriceOf(i) = NoPrice /\ PriceOf(j) = NoPrice) =>
               _calculate_price_similarity(PriceOf(i), PriceOf(j)) = Scale
    /\ \A i, j, k, l \in 1 .. n :
           (/\ BeyondTolerance(i, j) /\ BeyondTolerance(k, l)
            /\ Abs(PriceOf(i) - PriceOf(j)) * (PriceOf(k) + PriceOf(l))
                   <= Abs(PriceOf(k) - PriceOf(l)) * (PriceOf(i) + PriceOf(j)))
               => _calculate_price_similarity(PriceOf(i), PriceOf(j))
                      >= _calculate_price_similarity(PriceOf(k), PriceOf(l))

\* C24 without its first part: beyond the tolerance the similarity never increases
\* with the percentage difference, and it is 1.0 when neither record has a price.
C24_BeyondAndUnpriced ==
    LET n == Len(standardized_properties) IN
    /\ \A i, j \in 1 .. n :
           (PriceOf(i) = NoPrice /\ PriceOf(j) = NoPrice) =>
               _calculate_price_similarity(PriceOf(i), PriceOf(j)) = Scale
    /\ \A i, j, k, l \in 1 .. n :
           (/\ BeyondTolerance(i, j) /\ BeyondTolerance(k, l)
            /\ Abs(PriceOf(i) - PriceOf(j)) * (PriceOf(k) + PriceOf(l))
                   <= Abs(PriceOf(k) - PriceOf(l)) * (PriceOf(i) + PriceOf(j)))
               => _calculate_price_similarity(PriceOf(i), PriceOf(j))
                      >= _calculate_price_similarity(PriceOf(k), PriceOf(l))

\* ---------------------------------------------------------------------
\* Further properties of the fetcher
\* ---------------------------------------------------------------------
\* Every entry of the cache holds a successful FetchResult of status 200.
OnlySuccessCached ==
    \A k \in DOMAIN cache :
        cache[k].result.success /\ cache[k].result.status_code = 200

\* The cache holds an entry for the url that has not expired.
Cached(url) ==
    generate_key(url) \in DOMAIN cache /\ ~Expired(cache[generate_key(url)])

\* An entry that stays in the cache keeps its result, unless a fetch that was just
\* answered 200 stores its own result under that key.
EntriesKept ==
    \A k \in DOMAIN cache \cap DOMAIN cache' :
        cache'[k].result # cache[k].result =>
            /\ cache'[k].age = 0
            /\ \E r \in Runners :
                   /\ Responds(r) /\ Delivers(r)
                   /\ generate_key(Last(results'[r]).url) = k
                   /\ Last(results'[r]) = cache'[k].result

\* A task that ends in failure leaves the cache as it is.
FailureNotCached ==
    \A r \in Runners :
        (Delivers(r) /\ ~Last(results'[r]).success) => cache' = cache

\* C25: every entry of the fetch cache (empty at first, so after every step) is a
\* FetchResult with success and status 200;
\* failed outcomes are never cached, so a fetch of a url whose previous fetch failed
\* always makes a new network attempt; and a cached result is never modified after
\* it is stored.
C25_FailedThenAlwaysNetwork ==
    [][/\ OnlySuccessCached'
       /\ FailureNotCached
       /\ EntriesKept
       /\ \A r \in Runners :
              (/\ Begins(r)
               /\ CurrentTask(r).url \in DOMAIN last_fetch
               /\ ~last_fetch[CurrentTask(r).url].result.success)
                  => GoesToNetwork(r)]_vars

\* C25 as the code has it: the same, but a fetch makes a new network attempt exactly
\* when the cache holds no unexpired entry for its url, whatever the previous fetch
\* of the url ended in; otherwise it returns the entry's result.
C25_NetworkUnlessCached ==
    [][/\ OnlySuccessCached'
       /\ FailureNotCached
       /\ EntriesKept
       /\ \A r \in Runners :
              Begins(r) =>
                  IF Cached(CurrentTask(r).url)
                  THEN /\ ~GoesToNetwork(r) /\ Delivers(r)
                       /\ Last(results'[r]) = cache[generate_key(CurrentTask(r).url)].result
                  ELSE GoesToNetwork(r)]_vars

\* A task is on the network for a url whose previous fetch failed and was not cached.
C25_RefetchAfterFailure ==
    \E r \in Runners :
        /\ pc[r] = "inflight"
        /\ result[r].url \in DOMAIN last_fetch
        /\ ~last_fetch[result[r].url].result.success
        /\ generate_key(result[r].url) \notin DOMAIN cache

\* One call with several pages of one source and a page of another, on a fetcher
\* with the smaller max_concurrent_total.
InitSeq ==
    /\ input = [c \in {1} |-> << FetchTask("u1", "rent.com.au"),
                                 FetchTask("u3", "domain.com.au"),
                                 FetchTask("u2", "rent.com.au") >>]
    /\ max_concurrent_total = SmallTotal
    /\ Fresh
    /\ DedupIdle
    /\ RankIdle
    /\ EngineIdle

\* The same steps when a request is answered 200 or 429 or times out.
SeqOutcomes == {Response(200), Response(429), TimeoutError}

NextSeq ==
    \/ \E c \in CallIds : CallStart(c) /\ UNCHANGED << dvars, rvars, evars >>
    \/ \E r \in Runners : WaitIfNeeded(r) /\ UNCHANGED << dvars, rvars, evars >>
    \/ \E r \in Runners : RateWake(r) /\ UNCHANGED << dvars, rvars, evars >>
    \/ \E r \in Runners : AcquireSemaphore(r) /\ UNCHANGED << dvars, rvars, evars >>
    \/ \E r \in Runners : \E o \in SeqOutcomes : Respond(r, o) /\ UNCHANGED << dvars, rvars, evars >>
    \/ \E r \in Runners : BackoffWake(r) /\ UNCHANGED << dvars, rvars, evars >>
    \/ \E r \in Runners : JitterWake(r) /\ UNCHANGED << dvars, rvars, evars >>
    \/ \E c \in CallIds : Gather(c) /\ UNCHANGED << dvars, rvars, evars >>
    \/ Tick /\ UNCHANGED << dvars, rvars, evars >>

SpecSeq == InitSeq /\ [][NextSeq]_vars

\* The task of coroutine r has begun and is not finished: it waits for a permit, is on
\* the network, or sleeps before a retry.
InProgress(r) == pc[r] \in {"semwait", "inflight", "backoff", "jitter"}

\* The tasks of r that have begun: those before idx, and the one at idx once begun.
Started(r) == IF InProgress(r) THEN idx[r] ELSE idx[r] - 1

\* C26: within one call at most one fetch of a source is in progress at any time: the
\* next task of a source starts only after the previous one has finished, retries and
\* back-off sleeps included, so the per-source cap above 1 is never reached and the
\* results of a source come back in the order of submission.
C26_OneAtATimePerSource ==
    \A r \in Runners :
        /\ Started(r) - Len(results[r]) \in {0, 1}
        /\ InProgress(r) => Len(results[r]) = idx[r] - 1
        /\ Cardinality(InFlight(r[2])) <= 1
        /\ Len(results[r]) <= Len(Tasks(r))
        /\ \A i \in 1 .. Len(results[r]) : results[r][i].url = Tasks(r)[i].url

\* The second page of a source is on the network after the first one was retried and
\* has failed, while the source's cap is above 1.
C26_SecondAfterRetries ==
    \E r \in Runners :
        /\ Config(r).max_concurrent > 1
        /\ Len(Tasks(r)) = 2 /\ Tasks(r)[1].url # Tasks(r)[2].url
        /\ idx[r] = 2 /\ pc[r] = "inflight"
        /\ Len(results[r]) = 1
        /\ results[r][1].error.kind = "FailedAfter"

\* The output records (by position in unique_properties) that input record i
\* contributed to.
OutputsOf(i) == {g \in 1 .. Len(groups) : i \in groups[g]}

\* C27: deduplicate_properties partitions its input: every input record contributes
\* to exactly one output record, and duplicates_found = len(matches)
\* = len(input) - len(unique_properties) >= 0.
C27_Partition ==
    dpc = "returned" =>
        /\ Len(groups) = Len(unique_properties)
        /\ \A i \in 1 .. Len(properties) : Cardinality(OutputsOf(i)) = 1
        /\ \A g \in 1 .. Len(groups) :
               groups[g] # {} /\ groups[g] \subseteq 1 .. Len(properties)
        /\ duplicates_found = Len(matches)
        /\ Len(matches) = Len(properties) - Len(unique_properties)
        /\ duplicates_found >= 0

\* A call that merged two records and kept a third, which matches one of the two, as
\* a record of its own.
C27_MergedAndKept ==
    /\ dpc = "returned"
    /\ Len(properties) = 3 /\ Len(unique_properties) = 2 /\ Len(matches) = 1
    /\ groups = << {1, 3}, {2} >>
    /\ Matching(2, 3)

\* Some pair of standardized input records satisfies the match rule, compared in
\* either order.
SomePairMatches ==
    \E i, j \in 1 .. Len(standardized_properties) :
        i # j /\ _compare_properties(standardized_properties[i],
                                     standardized_properties[j]).matched

SearchRequest(location, property_type, bedrooms, bathrooms, parking, min_price, max_price) ==
    [location |-> location, property_type |-> property_type, bedrooms |-> bedrooms,
     bathrooms |-> bathrooms, parking |-> parking, min_price |-> min_price,
     max_price |-> max_price]

\* file_default: its location (a suburb string) and its priceRange
FileDefault(location, pr_min, pr_max) ==
    [location |-> location, priceRange |-> [min |-> pr_min, max |-> pr_max]]

\* (mutation: the band is 8% of the bound, without the floor of 100)
band_without_floor(price) == IF price < 0 THEN 0 - ((8 * (0 - price)) \div 100)
                             ELSE (8 * price) \div 100

\* max(int(0.08 * price), 100); int() cuts towards 0
band(price) == Max(IF price < 0 THEN 0 - ((8 * (0 - price)) \div 100)
                   ELSE (8 * price) \div 100, 100)

\* the query of a request
build_query_from_request(req, default) ==
    LET location == IF Lower(req.location) # "" THEN Lower(req.location)
                    ELSE Lower(default.location)
        bedrooms == req.bedrooms
        none_given == req.min_price = Null /\ req.max_price = Null
        min0 == IF none_given THEN default.priceRange.min ELSE req.min_price
        max0 == IF none_given THEN default.priceRange.max ELSE req.max_price
        max1 == IF min0 # Null /\ max0 = Null THEN min0 + band(min0) ELSE max0
        min1 == IF max1 # Null /\ min0 = Null THEN max1 - band(max1) ELSE min0
        equal == min1 # Null /\ max1 # Null /\ min1 = max1
        min_price == IF equal THEN min1 - band(min1) ELSE min1
        max_price == IF equal THEN max1 + band(min1) ELSE max1
    IN Query(location, bedrooms, req.bathrooms, min_price, max_price,
             req.parking # Null /\ req.parking > 0, Lower(req.property_type))

\* The price bounds a request or a default may hold.
Bounds == {Null, 0, 50, 1000, 1300, 2000}

Requests ==
    { SearchRequest(r.location, r.ptype, r.beds, Null, r.parking, lo, hi) :
        r \in { [location |-> "", ptype |-> "", beds |-> Null, parking |-> Null],
                [location |-> "Bondi", ptype |-> "apartment", beds |-> 2, parking |-> 1] },
        lo \in Bounds, hi \in Bounds }

Defaults ==
    { FileDefault("Chatswood", Null, Null), FileDefault("Chatswood", 1000, Null),
      FileDefault("", Null, 2000), FileDefault("", 1300, 1300) }

QueryInit ==
    /\ search_request \in Requests
    /\ file_default \in Defaults
    /\ listings = << >>
    /\ query = "None"
    /\ topk = 0
    /\ recommendations = << >>
    /\ rpc = "request"
    /\ FetcherIdle
    /\ DedupIdle
    /\ EngineIdle

\* build_query_from_request(search_request, file_default) returns
BuildQuery ==
    /\ rpc = "request"
    /\ query' = build_query_from_request(search_request, file_default)
    /\ rpc' = "built"
    /\ UNCHANGED << search_request, file_default, listings, topk, recommendations >>

QueryNext == BuildQuery /\ UNCHANGED << fvars, dvars, evars >>

QuerySpec == QueryInit /\ [][QueryNext]_vars

\* The price bounds the query was built from: the request's, or the default's when
\* the request has none.
GivenMin ==
    IF search_request.min_price = Null /\ search_request.max_price = Null
    THEN file_default.priceRange.min ELSE search_request.min_price

GivenMax ==
    IF search_request.min_price = Null /\ search_request.max_price = Null
    THEN file_default.priceRange.max ELSE search_request.max_price

\* C30: the query built has pmin and pmax both absent or both present; when at least
\* one price bound is given, with min_price <= max_price when both are, then
\* pmin < pmax: a single bound or an equal pair is widened by max(8% of the bound,
\* 100), and a pair min_price < max_price is kept.
C30_PriceRangeWellFormed ==
    rpc = "built" =>
        /\ (query.pmin = Null) <=> (query.pmax = Null)
        /\ (query.pmin = Null) <=> (GivenMin = Null /\ GivenMax = Null)
        /\ (GivenMin # Null /\ GivenMax = Null) =>
               /\ query.pmin = GivenMin
               /\ query.pmax = GivenMin + Max((8 * GivenMin) \div 100, 100)
        /\ (GivenMin = Null /\ GivenMax # Null) =>
               /\ query.pmax = GivenMax
               /\ query.pmin = GivenMax - Max((8 * GivenMax) \div 100, 100)
        /\ (GivenMin # Null /\ GivenMin = GivenMax) =>
               /\ query.pmin = GivenMin - Max((8 * GivenMin) \div 100, 100)
               /\ query.pmax = GivenMax + Max((8 * GivenMin) \div 100, 100)
        /\ (GivenMin # Null /\ GivenMax # Null /\ GivenMin < GivenMax) =>
               query.pmin = GivenMin /\ query.pmax = GivenMax
        /\ ((GivenMin # Null \/ GivenMax # Null)
               /\ (GivenMin # Null /\ GivenMax # Null => GivenMin <= GivenMax)) =>
               query.pmin < query.pmax

\* A request with max_price 50 alone: the query's range is -50 to 50.
C30_SingleLowBound ==
    /\ rpc = "built"
    /\ search_request.min_price = Null /\ search_request.max_price = 50
    /\ query.pmin = 0 - 50 /\ query.pmax = 50

\* A request with the equal pair 1300, 1300: the band is 8%, 104.
C30_EqualPairWidened ==
    /\ rpc = "built"
    /\ search_request.min_price = 1300 /\ search_request.max_price = 1300
    /\ query.pmin = 1196 /\ query.pmax = 1404

\* ---------------------------------------------------------------------
\* LiveRecommendationEngine.get_live_recommendations
\* (backend/services/live_recommendation_engine.py)

\* What get_live_recommendations reads of a FetchResult: site, success, properties.
LiveResult(site, success, props) ==
    [site |-> site, success |-> success, properties |-> props]

\* the record of the pool with the given link
Rec(l) == CHOOSE p \in Pool : p.link = l

\* The FetchResults that fetch_properties_concurrent may hand back: a failed fetch
\* (its properties stay []), a page that parsed to nothing, and pages with records.
ResultPool ==
    { LiveResult("realestate.com.au", FALSE, << >>),
      LiveResult("domain.com.au", TRUE, << >>),
      LiveResult("rent.com.au", TRUE, << Rec("r1") >>),
      LiveResult("domain.com.au", TRUE, << Rec("r2"), Rec("r10") >>) }

\* the longest list of FetchResults
MaxResults == 2

\* What the static CSV data may yield for the intent: nothing, or one or two rows.
StaticLists == { << >>, << Rec("r3") >>, << Rec("r3"), Rec("r10") >> }

\* unique_properties[:10], static_properties[:10]
ShownLimit == 10

Take(seq, n) == SubSeq(seq, 1, Min(n, Len(seq)))

\* Phase 3: "for result in fetch_results", from result k on, with the lists so far
RECURSIVE Phase3(_, _, _, _)
Phase3(rs, k, all, meta) ==
    IF k > Len(rs) THEN [all_properties |-> all, fetch_metadata |-> meta]
    ELSE IF rs[k].success
         THEN Phase3(rs, k + 1, all \o rs[k].properties,
                     [meta EXCEPT !.successful_fetches = @ + 1,
                                  !.total_properties_found = @ + Len(rs[k].properties)])
         ELSE Phase3(rs, k + 1, all, [meta EXCEPT !.failed_fetches = @ + 1])

\* (mutation: the static data are used whether or not the fallback is enabled)
fallback_always(enabled, static) == static

\* Phase 4 without live data: the static fallback if enabled, else []
static_fallback(enabled, static) == IF enabled THEN static ELSE << >>

\* the dictionary returned at the end of the try block
LiveResponse(unique, meta, all, alternatives) ==
    [success |-> TRUE,
     total_found |-> Len(unique),
     total_raw |-> meta.total_properties_found,
     duplicates_removed |-> meta.total_properties_found - Len(unique),
     properties |-> IF alternatives THEN Take(unique, ShownLimit) ELSE << >>,
     fetch_results |-> meta,
     data_source |-> IF all # << >> THEN "live" ELSE "static_fallback"]

\* the dictionary returned by the except branch when the static data yield records
FallbackResponse(static, alternatives) ==
    [success |-> TRUE,
     total_found |-> Len(static),
     total_raw |-> Null,
     duplicates_removed |-> Null,
     properties |-> IF alternatives THEN Take(static, ShownLimit) ELSE << >>,
     fetch_results |-> NoMetadata,
     data_source |-> "static_fallback"]

\* "Complete failure"
ErrorResponse ==
    [success |-> FALSE,
     total_found |-> 0,
     total_raw |-> Null,
     duplicates_removed |-> Null,
     properties |-> << >>,
     fetch_results |-> NoMetadata,
     data_source |-> "error"]

\* get_live_recommendations is called.
EngineInit ==
    /\ enable_fallback_to_static \in BOOLEAN
    /\ include_alternatives \in BOOLEAN
    /\ search_urls \in {0, 2}
    /\ static_data \in StaticLists
    /\ fetch_results = << >>
    /\ all_properties = << >>
    /\ fetch_metadata = EmptyMetadata
    /\ live_unique = << >>
    /\ metrics = NoMetrics
    /\ response = NoResponse
    /\ epc = "start"
    /\ FetcherIdle
    /\ DedupIdle
    /\ RankIdle

\* deduplicate_properties([]) is called.
EmptyDedupInit ==
    /\ properties = << >>
    /\ standardized_properties = << >>
    /\ unique_properties = << >>
    /\ matches = << >>
    /\ processed_indices = {}
    /\ anchor = 1
    /\ dpc = "call"
    /\ groups = << >>
    /\ FetcherIdle
    /\ RankIdle
    /\ EngineIdle

\* recommend_properties([], query, topk) is called.
EmptyRankInit ==
    /\ search_request = "None"
    /\ file_default = "None"
    /\ listings = << >>
    /\ query \in Queries
    /\ topk \in 0 .. MaxTopK
    /\ recommendations = << >>
    /\ rpc = "call"
    /\ FetcherIdle
    /\ DedupIdle
    /\ EngineIdle

EngineConfig == << enable_fallback_to_static, include_alternatives, search_urls, static_data >>

\* Phases 1 and 2: URLs were generated and fetch_properties_concurrent has returned.
FetchLive ==
    /\ epc = "start"
    /\ search_urls > 0
    /\ fetch_results' \in Lists(ResultPool, MaxResults)
    /\ metrics' = [metrics EXCEPT !.total_requests = @ + 1]
    /\ epc' = "fetched"
    /\ UNCHANGED << EngineConfig, all_properties, fetch_metadata, live_unique, response >>
    /\ UNCHANGED dvars

\* Phase 1 raises ("No search URLs could be generated from user intent") and the
\* except branch answers: from the static data if enabled and not empty, else the
\* error dictionary.
NoSearchUrls ==
    /\ epc = "start"
    /\ search_urls = 0
    /\ IF enable_fallback_to_static /\ static_data # << >>
       THEN /\ response' = FallbackResponse(static_data, include_alternatives)
            /\ metrics' = [metrics EXCEPT !.total_requests = @ + 1,
                                          !.fallback_usage = @ + 1]
       ELSE /\ response' = ErrorResponse
            /\ metrics' = [metrics EXCEPT !.total_requests = @ + 1]
    /\ epc' = "returned"
    /\ UNCHANGED << EngineConfig, fetch_results, all_properties, fetch_metadata,
                    live_unique >>
    /\ UNCHANGED dvars

\* Phase 3, and Phase 4 up to the call of deduplicate_properties or the fallback.
Combine ==
    /\ epc = "fetched"
    /\ LET p3 == Phase3(fetch_results, 1, << >>, EmptyMetadata)
       IN /\ all_properties' = p3.all_properties
          /\ fetch_metadata' = p3.fetch_metadata
          /\ IF p3.all_properties # << >>
             THEN /\ properties' = p3.all_properties
                  /\ dpc' = "call"
                  /\ epc' = "dedup"
                  /\ UNCHANGED << live_unique, metrics >>
             ELSE /\ live_unique' = static_fallback(enable_fallback_to_static, static_data)
                  /\ metrics' = IF enable_fallback_to_static
                                THEN [metrics EXCEPT !.fallback_usage = @ + 1]
                                ELSE metrics
                  /\ epc' = "compile"
                  /\ UNCHANGED << properties, dpc >>
    /\ UNCHANGED << EngineConfig, fetch_results, response >>
    /\ UNCHANGED << standardized_properties, unique_properties, matches,
                    processed_indices, anchor, groups >>

\* unique_properties = dedup_result.unique_properties
DedupDone ==
    /\ epc = "dedup"
    /\ dpc = "returned"
    /\ live_unique' = unique_properties
    /\ epc' = "compile"
    /\ UNCHANGED << EngineConfig, fetch_results, all_properties, fetch_metadata, metrics,
                    response >>
    /\ UNCHANGED dvars

\* Phases 5 and 6: the recommendations are generated (this never raises and leaves
\* the property lists alone) and the response is compiled.
Compile ==
    /\ epc = "compile"
    /\ response' = LiveResponse(live_unique, fetch_metadata, all_properties,
                                include_alternatives)
    /\ metrics' = [metrics EXCEPT !.successful_requests = @ + 1]
    /\ epc' = "returned"
    /\ UNCHANGED << EngineConfig, fetch_results, all_properties, fetch_metadata,
                    live_unique >>
    /\ UNCHANGED dvars

PipelineInit == EngineInit \/ EmptyDedupInit \/ EmptyRankInit

PipelineNext ==
    \/ FetchLive /\ UNCHANGED << fvars, rvars >>
    \/ NoSearchUrls /\ UNCHANGED << fvars, rvars >>
    \/ Combine /\ UNCHANGED << fvars, rvars >>
    \/ DedupDone /\ UNCHANGED << fvars, rvars >>
    \/ Compile /\ UNCHANGED << fvars, rvars >>
    \/ Standardize /\ UNCHANGED << fvars, rvars, evars >>
    \/ SkipProcessed /\ UNCHANGED << fvars, rvars, evars >>
    \/ MergeDuplicates /\ UNCHANGED << fvars, rvars, evars >>
    \/ AddUnique /\ UNCHANGED << fvars, rvars, evars >>
    \/ DedupReturn /\ UNCHANGED << fvars, rvars, evars >>
    \/ Recommend /\ UNCHANGED << fvars, dvars, evars >>

\* A call that has started runs on until it returns.
PipelineSpec == PipelineInit /\ [][PipelineNext]_vars /\ WF_vars(PipelineNext)

\* The fetch has returned FetchResults and none of them is a success.
AllFailed ==
    /\ fetch_results # << >>
    /\ epc \in {"fetched", "dedup", "compile", "returned"}
    /\ \A k \in 1 .. Len(fetch_results) : ~fetch_results[k].success

\* C21: when every fetch task fails, get_live_recommendations returns without
\* raising, the list of properties it returns is empty and its fetch metadata report
\* zero successful fetches; deduplicate_properties and recommend_properties return
\* an empty output for an empty input.
C21_EmptyWhenAllFail ==
    /\ (epc = "returned" /\ AllFailed) =>
           /\ response.success
           /\ response.properties = << >>
           /\ response.fetch_results.successful_fetches = 0
    /\ (dpc = "returned" /\ properties = << >>) => unique_properties = << >>
    /\ (rpc = "returned" /\ listings = << >>) => recommendations = << >>

\* C21, with the static fallback: when every fetch task fails, the call returns
\* without raising and its fetch metadata report zero successful fetches; the list
\* of properties it returns is empty unless the static fallback is enabled, yields
\* records and alternatives are asked for, and then it is the first ten of the static
\* records; deduplicate_properties and recommend_properties return an empty output
\* for an empty input.
C21_EmptyOrStaticWhenAllFail ==
    /\ [](/\ (epc = "returned" /\ AllFailed) =>
               /\ response.success
               /\ response.properties =
                      IF enable_fallback_to_static /\ include_alternatives
                      THEN Take(static_data, ShownLimit) ELSE << >>
               /\ response.fetch_results.successful_fetches = 0
               /\ response.fetch_results.failed_fetches = Len(fetch_results)
          /\ (dpc = "returned" /\ properties = << >>) =>
                 unique_properties = << >> /\ matches = << >>
          /\ (rpc = "returned" /\ listings = << >>) => recommendations = << >>)
    /\ (epc = "fetched" /\ AllFailed) ~> (epc = "returned")

\* Every fetch failed, the fallback is enabled and yields records: they are returned.
C21_AllFailedStaticReturned ==
    /\ epc = "returned"
    /\ AllFailed
    /\ Len(fetch_results) = 2
    /\ enable_fallback_to_static
    /\ static_data # << >>
    /\ response.properties = static_data
    /\ response.data_source = "static_fallback"

\* Every fetch failed and the fallback is disabled: nothing is returned.
C21_AllFailedNothingReturned ==
    /\ epc = "returned"
    /\ AllFailed
    /\ Len(fetch_results) = 2
    /\ ~enable_fallback_to_static
    /\ static_data # << >>
    /\ response.properties = << >>

\* C29: in every response that reports duplicates_removed it is not negative
\* (total_found is at most total_raw), also when the static fallback supplies the
\* properties; and successful_fetches + failed_fetches is the number of
\* FetchResults received.
C29_CountsConsistent ==
    (epc = "returned" /\ response.duplicates_removed # Null) =>
        /\ response.duplicates_removed >= 0
        /\ response.total_found <= response.total_raw
        /\ response.fetch_results.successful_fetches
               + response.fetch_results.failed_fetches = Len(fetch_results)

\* C29 for the responses made of live data, and the sum for all that report it
C29_LiveCountsConsistent ==
    (epc = "returned" /\ response.duplicates_removed # Null) =>
        /\ response.data_source = "live" =>
               /\ response.duplicates_removed >= 0
               /\ response.total_found <= response.total_raw
        /\ response.fetch_results.successful_fetches
               + response.fetch_results.failed_fetches = Len(fetch_results)

\* A response with live data from which a duplicate was removed.
C29_DuplicateRemoved ==
    /\ epc = "returned"
    /\ response.data_source = "live"
    /\ response.duplicates_removed = 1
    /\ response.total_found = 2

====
